---- MODULE Spec2Model ----
(***************************************************************************)
(* Matterverse: the polling subscription engine                            *)
(* (polling_subscription_manager.py), the command gateway                  *)
(* (api_interface.py, device_manager.py, mqtt_interface.py) and the        *)
(* process executor (chip_tool_manager.py) as one state machine.           *)
(*                                                                         *)
(* All coroutines run on one asyncio event loop: a step of the model is    *)
(* the code a coroutine runs between two suspension points.  An            *)
(* uncontended asyncio.Lock / asyncio.Semaphore acquire does not suspend;  *)
(* asyncio.wait_for (Python 3.11) runs its argument in a new task, so the  *)
(* caller suspends before the argument starts.                             *)
(***************************************************************************)
EXTENDS Integers, Sequences, FiniteSets, TLC

(***************************************************************************)
(* Bounds of the model.                                                    *)
(***************************************************************************)
MaxTasks == 2       \* polling tasks alive or listed at the same time
NumHandlers == 1    \* external command handlers in flight at the same time
MaxOrphans == 1     \* chip-tool processes left running without an owner
MaxBusy == 1        \* times chip-tool answers 'Resource is busy'
MaxProcesses == 2   \* process slots of the executor (max_concurrent_processes)

(***************************************************************************)
(* Program constants.                                                      *)
(***************************************************************************)
max_retries == 3          \* chip_tool_manager.py:392
ExecuteTimeout == 30      \* chip_tool_manager.py:320, execute_command(timeout=30.0)

NULL == "NULL"            \* Python None / SQL NULL

TaskIds == 1..MaxTasks
HandlerIds == (MaxTasks + 1)..(MaxTasks + NumHandlers)
CallerIds == TaskIds \cup HandlerIds

(***************************************************************************)
(* The devices and the attribute rows the Registry can hold.  A device is  *)
(* the pair (NodeID, Endpoint).  Rows are appended to the Attribute table  *)
(* in enumeration order and never deleted (Database.delete_device only     *)
(* deletes from Device).                                                   *)
(***************************************************************************)
DeviceKeys == {<<1, 1>>, <<1, 2>>}

AllRows ==
  << [NodeID |-> 1, Endpoint |-> 1, Cluster |-> "On/Off", Attribute |-> "OnOff"],
     [NodeID |-> 1, Endpoint |-> 1, Cluster |-> "Level Control", Attribute |-> "CurrentLevel"],
     [NodeID |-> 1, Endpoint |-> 2, Cluster |-> "On/Off", Attribute |-> "OnOff"] >>

\* The Data of a report as TreeToJsonTransformer returns it: a number is a Python
\* int, anything else a str.  NoValue is a response without Data (None).
TrueValue == [t |-> "str", n |-> 0, s |-> "true"]
OneValue == [t |-> "int", n |-> 1, s |-> ""]
NoValue == [t |-> "none", n |-> 0, s |-> ""]
RawValues == {TrueValue, OneValue}

\* str(new_value)
Str(raw) == IF raw.t = "int" THEN ToString(raw.n) ELSE raw.s

(***************************************************************************)
(* The data-model dictionary (cluster XML): ids and codes are the          *)
(* lower-cased hex strings of the XML.                                     *)
(***************************************************************************)
clusters ==
  { [name |-> "On/Off", id |-> "0x0006",
     attributes |-> {[name |-> "OnOff", code |-> "0x0000", type |-> "boolean"]}],
    [name |-> "Level Control", id |-> "0x0008",
     attributes |-> {[name |-> "CurrentLevel", code |-> "0x0000", type |-> "int8u"]}] }

\* int(s.replace("0x", ""), 16) on the hex strings of the dictionary
HexToInt(s) ==
  CASE s = "0x0000" -> 0
    [] s = "0x0006" -> 6
    [] s = "0x0008" -> 8
    [] OTHER -> 0

\* f"0x{n:04x}"
Hex04(n) ==
  CASE n = 0 -> "0x0000"
    [] n = 6 -> "0x0006"
    [] n = 8 -> "0x0008"
    [] n = 256 -> "0x0100"
    [] OTHER -> "0x????"

\* get_cluster_by_name / get_cluster_by_id: the matching clusters (none or one)
get_cluster_by_name(name) == {c \in clusters : c.name = name}

get_cluster_by_id(cluster_id) == {c \in clusters : c.id = cluster_id}

get_cluster_name_by_id(cluster_id) ==
  LET cs == get_cluster_by_id(cluster_id) IN
  IF cs = {} THEN NULL ELSE (CHOOSE c \in cs : TRUE).name

get_attribute_name_by_code(cluster_id, attribute_code) ==
  LET as == UNION {c.attributes : c \in get_cluster_by_id(cluster_id)}
      hit == {a \in as : a.code = attribute_code} IN
  IF hit = {} THEN NULL ELSE (CHOOSE a \in hit : TRUE).name

get_attribute_code_by_name(cluster_id, attribute_name) ==
  LET as == UNION {c.attributes : c \in get_cluster_by_id(cluster_id)}
      hit == {a \in as : a.name = attribute_name} IN
  IF hit = {} THEN NULL ELSE (CHOOSE a \in hit : TRUE).code

\* the lookups class DataModelDictionary defines; it has no __getattr__
DataModelMethods ==
  { "get_cluster_by_name", "get_cluster_by_id", "get_cluster_id_by_name",
    "get_device_type_by_id", "get_clusters_by_device_type",
    "get_attributes_by_cluster_name", "get_enums_by_cluster_name",
    "get_cluster_name_by_id", "get_attribute_name_by_code",
    "get_attribute_code_by_name", "get_command_name_by_code" }

\* PollingSubscriptionManager._get_cluster_id
GetClusterId(cluster_name) ==
  LET cs == get_cluster_by_name(cluster_name) IN
  IF cs = {} THEN 0 ELSE HexToInt((CHOOSE c \in cs : TRUE).id)

\* PollingSubscriptionManager._get_attribute_id
GetAttributeId(cluster_name, attribute_name) ==
  LET cs == get_cluster_by_name(cluster_name) IN
  IF cs = {} THEN 0
  ELSE LET code == get_attribute_code_by_name((CHOOSE c \in cs : TRUE).id, attribute_name) IN
       IF code # NULL THEN HexToInt(code) ELSE 0

VARIABLES
  config,               \* PollingConfig
  max_concurrent,       \* ProcessBasedChipToolManager.max_concurrent
  report_values,        \* the values the devices report in this run
  running,              \* PollingSubscriptionManager._running
  paused_for_command,   \* ._paused_for_command
  command_in_progress,  \* ._command_in_progress
  polling_tasks,        \* the polling tasks: ._polling_tasks and the tasks alive
  device_locks,         \* PollingState.device_locks (the keys that have a lock)
  polling_enabled,      \* PollingState.polling_enabled (default True)
  error_counts,         \* PollingState.error_counts (default 0)
  discovery_task,       \* ._discovery_task: "active", or "none" (None or done)
  stop_pc,              \* position of a stop_polling call
  Attribute,            \* the Attribute table of the Registry
  handlers,             \* external command handlers
  calls,                \* execute_command calls of the tasks and handlers
  orphans,              \* running chip-tool processes nobody waits for
  busy_left,            \* 'Resource is busy' answers chip-tool may still give
  run,                  \* one _execute_in_new_process call, step by step
  config_ini,           \* <commissioning_dir>/chip_tool_config.ini exists
  Device,               \* the Device table of the Registry
  UniqueID,             \* the UniqueID table of the Registry
  registration,         \* one register_new_device call and the Registry's history
  request,              \* the request or call under way at an interface, and its outcome
  published,            \* the messages the last call handed to the MQTT client, in order
  connected_clients     \* WebSocketInterface._connected_clients

constVars == << config, max_concurrent, report_values >>
flagVars == << running, paused_for_command, command_in_progress >>
enableVars == << polling_enabled, error_counts >>
mgmtVars == << discovery_task, stop_pc >>
procVars == << orphans, busy_left >>
callVars == << run, config_ini >>
registryVars == << Device, UniqueID, registration >>
ifaceVars == << request, published, connected_clients >>

vars == << constVars, flagVars, polling_tasks, device_locks, enableVars, mgmtVars,
           Attribute, handlers, calls, procVars, callVars, registryVars, ifaceVars >>

(***************************************************************************)
(* Records.                                                                *)
(***************************************************************************)
NoDevice == <<0, 0>>
NoTask ==
  [dev |-> NoDevice, pc |-> "none", idx |-> 0, snap |-> <<>>, listed |-> FALSE,
   new_value |-> NoValue, events |-> <<>>]
NoCall == [st |-> "none", retry |-> 0]
IdleHandler == [pc |-> "idle", kind |-> "none", dev |-> NoDevice]

\* A stdout text: the process that printed it and whether the text contains
\* 'Resource is busy'.  NoText is None.
NoText == [from |-> 0, busy |-> FALSE]
StdoutOf(k, out) == [from |-> k, busy |-> out.busy]

\* ChipToolResponse.  data is None ("none"), the raw fallback dict ("raw", with
\* its raw_output), one formatted block ("block") or a list of formatted blocks
\* ("list").
Response(status, shape, raw_output, items) ==
  [status |-> status, shape |-> shape, raw_output |-> raw_output, items |-> items]
NoResponse == Response("none", "none", NoText, << >>)

\* An _execute_in_new_process call that has not begun: its position, its
\* command, the loop variable retry_count, the iterations begun, the processes
\* it started, the local variable response, and what it returns
NoRun ==
  [pc |-> "idle", command |-> "none", retry_count |-> 0, retries |-> 0, procs |-> << >>,
   response |-> NoResponse, result |-> NoResponse, commissioned |-> FALSE]

\* No request is under way at the API, MQTT or WebSocket interface
NoRequest == [op |-> "none", result |-> "none"]

\* No register_new_device call has begun and nothing was deleted: the position
\* of the call, its node_id, the endpoints it has still to register, the rows
\* it inserted, whether it returned False, whether a read of the device failed
\* in some call, the calls begun and the devices deleted through the API
NoRegistration ==
  [pc |-> "idle", node_id |-> 0, endpoints |-> {}, inserted |-> {}, failed |-> FALSE,
   faults |-> FALSE, cycles |-> 0, deleted |-> {}]

\* asyncio.create_task(self._device_polling_loop(node_id, endpoint)) followed by
\* self._polling_tasks.append(task)
NewTask(d) ==
  [dev |-> d, pc |-> "loop", idx |-> 0, snap |-> <<>>, listed |-> TRUE,
   new_value |-> NoValue, events |-> <<>>]

DeviceOf(row) == <<row.NodeID, row.Endpoint>>

\* PollingConfig as MatterverseApplication builds it: command_timeout is
\* COMMAND_TIMEOUT (default 30), max_concurrent_devices is MAX_CONCURRENT_DEVICES
ConfigSet ==
  [ max_concurrent_devices : {1, 2},
    device_error_stop : {TRUE},
    command_timeout : {30},
    auto_discovery_interval : {300} ]

\* Row i of the enumeration as the INSERT of Database.create_attribute_entry
\* leaves it, in the columns get_all_attributes selects: no value yet
NewRow(i) ==
  [NodeID |-> AllRows[i].NodeID, Endpoint |-> AllRows[i].Endpoint,
   Cluster |-> AllRows[i].Cluster, Attribute |-> AllRows[i].Attribute,
   Value |-> NULL]

\* The Attribute table as the enumeration left it: the first n rows, no value yet.
InitialTable(n) == [i \in 1..n |-> NewRow(i)]

\* The Attribute table of an earlier run: the first n rows, each with value v.
PolledTable(n, v) == [i \in 1..n |-> [NewRow(i) EXCEPT !.Value = v]]

\* PollingSubscriptionManager.__init__, PollingState.__init__ and
\* ProcessBasedChipToolManager.__init__ for a configuration, a stored table and
\* the answers the devices will give
InitEngine(configs, tables, values, processes, busy) ==
  /\ config \in configs
  /\ max_concurrent = processes
  /\ report_values = values
  /\ running = FALSE
  /\ paused_for_command = FALSE
  /\ command_in_progress = FALSE
  /\ polling_tasks = [t \in TaskIds |-> NoTask]
  /\ device_locks = {}
  /\ polling_enabled = [d \in DeviceKeys |-> TRUE]
  /\ error_counts = [d \in DeviceKeys |-> 0]
  /\ discovery_task = "none"
  /\ stop_pc = "idle"
  /\ Attribute \in tables
  /\ handlers = [h \in HandlerIds |-> IdleHandler]
  /\ calls = [c \in CallerIds |-> NoCall]
  /\ orphans = 0
  /\ busy_left = busy

\* No _execute_in_new_process call is followed step by step
CallIdle ==
  /\ run = NoRun
  /\ config_ini = FALSE

\* Database._initialize_tables on a new file: CREATE TABLE IF NOT EXISTS
RegistryEmpty ==
  /\ Device = {}
  /\ UniqueID = {}
  /\ registration = NoRegistration

\* No request at the interfaces, nothing published, no WebSocket client
InterfacesIdle ==
  /\ request = NoRequest
  /\ published = << >>
  /\ connected_clients = {}

InitWith(configs, tables, values, processes, busy) ==
  /\ InitEngine(configs, tables, values, processes, busy)
  /\ CallIdle
  /\ RegistryEmpty
  /\ InterfacesIdle

(***************************************************************************)
(* State functions of the polling engine.                                  *)
(***************************************************************************)
\* PollingState.is_device_enabled
is_device_enabled(d) == polling_enabled[d]

\* Database.get_all_attributes
get_all_attributes == Attribute

\* PollingSubscriptionManager._get_unique_devices
GetUniqueDevices == {DeviceOf(Attribute[i]) : i \in 1..Len(Attribute)}

\* PollingSubscriptionManager._get_device_attributes
GetDeviceAttributes(d) == SelectSeq(get_all_attributes, LAMBDA row : DeviceOf(row) = d)

\* PollingSubscriptionManager._is_device_already_polling over a task list:
\* some task of the list is not done and the device has a lock
IsPollingIn(tasks, locks, d) ==
  \E t \in TaskIds : tasks[t].listed /\ tasks[t].pc # "done" /\ d \in locks

IsDeviceAlreadyPolling(d) == IsPollingIn(polling_tasks, device_locks, d)

\* tasks inside "async with self._semaphore"
DeviceSemHolders ==
  {t \in TaskIds : polling_tasks[t].pc \in {"lockWait", "issue", "read", "gap"}}

\* tasks inside "async with device_lock" of device d
LockHolders(d) ==
  {t \in TaskIds : polling_tasks[t].dev = d /\ polling_tasks[t].pc \in {"issue", "read", "gap"}}

\* callers inside "async with self.semaphore" of the executor
ExecSemHolders == {c \in CallerIds : calls[c].st \in {"run", "rsleep", "rrun"}}

CallerDevice(c) == IF c \in TaskIds THEN polling_tasks[c].dev ELSE handlers[c].dev

\* chip-tool child processes that are running
OwnedProcs == {c \in CallerIds : calls[c].st \in {"run", "rrun"}}
RunningProcesses == Cardinality(OwnedProcs) + orphans

FreeSlots == {t \in TaskIds : polling_tasks[t].pc = "none"}
LiveTasks == {t \in TaskIds : polling_tasks[t].pc \notin {"none", "done"}}
LoopsOf(d) == {t \in LiveTasks : polling_tasks[t].dev = d}

(***************************************************************************)
(* poll_single_attribute after execute_command has returned.               *)
(***************************************************************************)
\* what a chip-tool process can print
Outcomes ==
  {[kind |-> "report", value |-> v] : v \in report_values}
    \cup {[kind |-> k, value |-> NoValue] : k \in {"busy", "raw", "stderr"}}

\* ProcessBasedChipToolManager._parse_process_output / _format_parsed_data
ParseProcessOutput(out) ==
  CASE out.kind = "stderr" -> [status |-> "error", value |-> NoValue, busy |-> FALSE]
    [] out.kind = "report" -> [status |-> "success", value |-> out.value, busy |-> FALSE]
    [] out.kind = "busy" -> [status |-> "success", value |-> NoValue, busy |-> TRUE]
    [] OTHER -> [status |-> "success", value |-> NoValue, busy |-> FALSE]

TimeoutResponse == [status |-> "timeout", value |-> NoValue, busy |-> FALSE]
BusyResponse == [status |-> "success", value |-> NoValue, busy |-> TRUE]

\* PollingSubscriptionManager._extract_attribute_value, None when the read failed
ExtractAttributeValue(response) ==
  IF response.status = "success" THEN response.value ELSE NoValue

\* An update that rewrites the Type column together with the value
update_attribute_retyped(table, node_id, endpoint, cluster_id, attribute_id, data) ==
  LET response_cluster == get_cluster_name_by_id(Hex04(cluster_id))
      response_attribute == get_attribute_name_by_code(Hex04(cluster_id), Hex04(attribute_id))
  IN [i \in DOMAIN table |->
        IF /\ table[i].NodeID = node_id
           /\ table[i].Endpoint = endpoint
           /\ table[i].Cluster = response_cluster
           /\ table[i].Attribute = response_attribute
        THEN [table[i] EXCEPT !.Value = data, !.Type = "string"]
        ELSE table[i]]

\* Database.update_attribute on the mock report of _update_attribute_value
update_attribute(table, node_id, endpoint, cluster_id, attribute_id, data) ==
  LET response_cluster == get_cluster_name_by_id(Hex04(cluster_id))
      response_attribute == get_attribute_name_by_code(Hex04(cluster_id), Hex04(attribute_id))
  IN [i \in DOMAIN table |->
        IF /\ table[i].NodeID = node_id
           /\ table[i].Endpoint = endpoint
           /\ table[i].Cluster = response_cluster
           /\ table[i].Attribute = response_attribute
        THEN [table[i] EXCEPT !.Value = data]
        ELSE table[i]]

\* PollingSubscriptionManager._update_attribute_value
UpdateAttributeValue(table, node_id, endpoint, cluster_name, attribute_name, new_value) ==
  update_attribute(table, node_id, endpoint, GetClusterId(cluster_name),
                   GetAttributeId(cluster_name, attribute_name), new_value)

\* the notification_data of _send_value_change_notification (lines 555-567),
\* without the "type" of its data
ChangeEvent(node_id, endpoint, cluster_name, attribute_name, value) ==
  [type |-> "status_report",
   device |-> [node |-> node_id, endpoint |-> endpoint],
   data |-> [cluster |-> cluster_name, attribute |-> attribute_name, value |-> value]]

\* PollingSubscriptionManager._send_value_change_notification: the events handed
\* to the notification callback.  Building the payload calls
\* self.data_model.get_attribute_type_by_name (line 564); when the data model has
\* no such method the AttributeError is caught at line 578 and nothing is sent.
SendValueChangeNotification(node_id, endpoint, cluster_name, attribute_name, value) ==
  IF "get_attribute_type_by_name" \in DataModelMethods
  THEN <<ChangeEvent(node_id, endpoint, cluster_name, attribute_name, value)>>
  ELSE <<>>

\* PollingSubscriptionManager.poll_single_attribute from the response on:
\* the table afterwards and the change events sent
poll_single_attribute(table, node_id, endpoint, cluster_name, attribute_name, current_value, response) ==
  IF ExtractAttributeValue(response) = NoValue
  THEN [table |-> table, events |-> <<>>]
  ELSE LET new_value_str == Str(response.value) IN
       IF current_value # new_value_str
       THEN [table |-> UpdateAttributeValue(table, node_id, endpoint, cluster_name,
                                            attribute_name, new_value_str),
             events |-> SendValueChangeNotification(node_id, endpoint, cluster_name,
                                                    attribute_name, response.value)]
       ELSE [table |-> table, events |-> <<>>]

(***************************************************************************)
(* The per-device polling loop: _device_polling_loop and                   *)
(* _poll_device_attributes.  Positions of a task:                          *)
(*   loop      about to evaluate the while condition (line 320)            *)
(*   sleep     in asyncio.sleep(0.5) or asyncio.sleep(polling_interval)    *)
(*   semWait   waiting for self._semaphore (line 327)                      *)
(*   lockWait  waiting for the device lock (line 355)                      *)
(*   issue     in wait_for, execute_command not yet started (line 423)     *)
(*   read      execute_command of the read under way                       *)
(*   gap       in asyncio.sleep(0.1) after an attribute (line 384)         *)
(*   done      the coroutine has returned                                  *)
(* The handler of lines 336-347 is not reached: _poll_device_attributes    *)
(* catches every Exception of poll_single_attribute (line 386), and        *)
(* nothing else in the try block raises one.                               *)
(***************************************************************************)
Sleeping(tk) ==
  [tk EXCEPT !.pc = "sleep", !.idx = 0, !.snap = <<>>, !.new_value = NoValue, !.events = <<>>]

\* the for loop of _poll_device_attributes at attribute j (lines 370-381); leaving
\* the loop releases the device lock and the semaphore and sleeps polling_interval
ForNext(tk, snap, j) ==
  IF \/ j > Len(snap)
     \/ ~running
     \/ ~is_device_enabled(tk.dev)
     \/ paused_for_command
  THEN Sleeping(tk)
  ELSE [tk EXCEPT !.pc = "issue", !.idx = j, !.snap = snap,
                  !.new_value = NoValue, !.events = <<>>]

\* _poll_device_attributes once the device lock is held (lines 356-370)
EnterSweep(tk) ==
  IF paused_for_command
  THEN Sleeping(tk)
  ELSE LET attributes == GetDeviceAttributes(tk.dev) IN
       IF attributes = <<>> THEN Sleeping(tk) ELSE ForNext(tk, attributes, 1)

\* a device lock that never excludes anybody
LockNeverHeld(d) == TRUE

\* "async with device_lock": asyncio.Lock.acquire does not suspend when the lock
\* is free and nobody waits for it
LockFree(d) ==
  /\ LockHolders(d) = {}
  /\ ~\E u \in TaskIds : polling_tasks[u].dev = d /\ polling_tasks[u].pc = "lockWait"

TryLock(tk) ==
  IF LockFree(tk.dev) THEN EnterSweep(tk) ELSE [tk EXCEPT !.pc = "lockWait"]

\* a semaphore that never makes a loop wait
DeviceSemUnbounded == TRUE

\* "async with self._semaphore"
DeviceSemFree ==
  /\ Cardinality(DeviceSemHolders) < config.max_concurrent_devices
  /\ ~\E u \in TaskIds : polling_tasks[u].pc = "semWait"

\* a task that returns: it stays in _polling_tasks as done, a task that is no
\* longer in the list disappears
Finished(tk) ==
  IF tk.listed
  THEN [tk EXCEPT !.pc = "done", !.idx = 0, !.snap = <<>>, !.new_value = NoValue, !.events = <<>>]
  ELSE NoTask

\* line 320-328: the while condition, the pause check, the semaphore and the lock
LoopTop(t) ==
  LET tk == polling_tasks[t] IN
  /\ tk.pc = "loop"
  /\ IF ~(running /\ is_device_enabled(tk.dev))
     THEN /\ polling_tasks' = [polling_tasks EXCEPT ![t] = Finished(tk)]
          /\ UNCHANGED device_locks
     ELSE IF paused_for_command
     THEN /\ polling_tasks' = [polling_tasks EXCEPT ![t] = Sleeping(tk)]
          /\ UNCHANGED device_locks
     ELSE IF DeviceSemFree
     THEN /\ polling_tasks' = [polling_tasks EXCEPT ![t] = TryLock(tk)]
          /\ device_locks' = device_locks \cup {tk.dev}
     ELSE /\ polling_tasks' = [polling_tasks EXCEPT ![t].pc = "semWait"]
          /\ UNCHANGED device_locks
  /\ UNCHANGED << constVars, callVars, registryVars, ifaceVars, flagVars, enableVars, mgmtVars, Attribute, handlers,
                  calls, procVars >>

\* the semaphore is handed to a waiting task
SemAcquire(t) ==
  LET tk == polling_tasks[t] IN
  /\ tk.pc = "semWait"
  /\ Cardinality(DeviceSemHolders) < config.max_concurrent_devices
  /\ polling_tasks' = [polling_tasks EXCEPT ![t] = TryLock(tk)]
  /\ device_locks' = device_locks \cup {tk.dev}
  /\ UNCHANGED << constVars, callVars, registryVars, ifaceVars, flagVars, enableVars, mgmtVars, Attribute, handlers,
                  calls, procVars >>

\* the device lock is handed to a waiting task
LockAcquire(t) ==
  LET tk == polling_tasks[t] IN
  /\ tk.pc = "lockWait"
  /\ LockHolders(tk.dev) = {}
  /\ polling_tasks' = [polling_tasks EXCEPT ![t] = EnterSweep(tk)]
  /\ UNCHANGED << constVars, callVars, registryVars, ifaceVars, flagVars, device_locks, enableVars, mgmtVars, Attribute,
                  handlers, calls, procVars >>

\* line 384 -> 370: the inter-attribute sleep is over, next attribute
Gap(t) ==
  LET tk == polling_tasks[t] IN
  /\ tk.pc = "gap"
  /\ polling_tasks' = [polling_tasks EXCEPT ![t] = ForNext(tk, tk.snap, tk.idx + 1)]
  /\ UNCHANGED << constVars, callVars, registryVars, ifaceVars, flagVars, device_locks, enableVars, mgmtVars, Attribute,
                  handlers, calls, procVars >>

\* line 324 / 331: the sleep is over
Wake(t) ==
  /\ polling_tasks[t].pc = "sleep"
  /\ polling_tasks' = [polling_tasks EXCEPT ![t].pc = "loop"]
  /\ UNCHANGED << constVars, callVars, registryVars, ifaceVars, flagVars, device_locks, enableVars, mgmtVars, Attribute,
                  handlers, calls, procVars >>

(***************************************************************************)
(* The process executor: ProcessBasedChipToolManager.execute_command and   *)
(* _execute_in_new_process.  States of a call:                             *)
(*   wait    waiting for self.semaphore (line 334)                         *)
(*   run     the process is running, the call awaits communicate (375)     *)
(*   rsleep  in asyncio.sleep(retry_delay) before retry number retry (397) *)
(*   rrun    the retry process is running (407)                            *)
(***************************************************************************)
ExecSemFree ==
  /\ Cardinality(ExecSemHolders) < max_concurrent
  /\ ~\E c \in CallerIds : calls[c].st = "wait"

\* execute_command up to its first suspension: the semaphore is taken and the
\* process spawned, or the call waits for the semaphore
StartCall == IF ExecSemFree THEN [st |-> "run", retry |-> 0] ELSE [st |-> "wait", retry |-> 0]

\* PollingSubscriptionManager.resume_polling_after_command
ResumePolling ==
  IF running
  THEN /\ command_in_progress' = FALSE
       /\ paused_for_command' = FALSE
  ELSE UNCHANGED << command_in_progress, paused_for_command >>

\* PollingSubscriptionManager.pause_polling_for_command
PausePolling ==
  IF running
  THEN /\ paused_for_command' = TRUE
       /\ command_in_progress' = TRUE
  ELSE UNCHANGED << command_in_progress, paused_for_command >>

\* poll_single_attribute lines 428-457 and the sleep of line 384
TaskReturn(t, response) ==
  LET tk == polling_tasks[t]
      attr == tk.snap[tk.idx]
      r == poll_single_attribute(Attribute, tk.dev[1], tk.dev[2], attr.Cluster,
                                 attr.Attribute, attr.Value, response)
  IN /\ Attribute' = r.table
     /\ polling_tasks' = [polling_tasks EXCEPT ![t].pc = "gap",
                                                ![t].new_value = ExtractAttributeValue(response),
                                                ![t].events = r.events]
     /\ UNCHANGED << handlers, paused_for_command, command_in_progress >>

\* the caller of execute_command continues: APIInterface.execute_command lines
\* 190-221 (the finally path resumes polling), DeviceManager.write_device_attribute
\* line 313
HandlerReturn(h, response) ==
  /\ handlers' = [handlers EXCEPT ![h] = IdleHandler]
  /\ IF handlers[h].kind = "command"
     THEN ResumePolling
     ELSE UNCHANGED << command_in_progress, paused_for_command >>
  /\ UNCHANGED << polling_tasks, Attribute >>

Return(c, response) ==
  IF c \in TaskIds THEN TaskReturn(c, response) ELSE HandlerReturn(c, response)

NoReturn ==
  UNCHANGED << polling_tasks, Attribute, handlers, paused_for_command, command_in_progress >>

\* which deadline expires first: the caller's wait_for (command_timeout, armed
\* before execute_command starts) or the executor's own (timeout=30.0, armed after
\* the process is spawned); with equal values either can
OuterCanFire(c) == c \in TaskIds /\ config.command_timeout <= ExecuteTimeout
InnerCanFire(c) == c \notin TaskIds \/ config.command_timeout >= ExecuteTimeout

\* line 423 -> 334/364: the read's execute_command starts
ExecStart(t) ==
  /\ polling_tasks[t].pc = "issue"
  /\ polling_tasks' = [polling_tasks EXCEPT ![t].pc = "read"]
  /\ calls' = [calls EXCEPT ![t] = StartCall]
  /\ UNCHANGED << constVars, callVars, registryVars, ifaceVars, flagVars, device_locks, enableVars, mgmtVars, Attribute,
                  handlers, procVars >>

\* the semaphore is handed to a waiting call, which spawns its process
ExecSemAcquire(c) ==
  /\ calls[c].st = "wait"
  /\ Cardinality(ExecSemHolders) < max_concurrent
  /\ calls' = [calls EXCEPT ![c].st = "run"]
  /\ NoReturn
  /\ UNCHANGED << constVars, callVars, registryVars, ifaceVars, running, device_locks, enableVars, mgmtVars, procVars >>

\* lines 375-442: the process exits; busy output starts the retry loop, any other
\* output is the response
ProcessExit(c, out) ==
  /\ calls[c].st = "run"
  /\ IF out.kind = "busy"
     THEN /\ busy_left > 0
          /\ busy_left' = busy_left - 1
          /\ calls' = [calls EXCEPT ![c] = [st |-> "rsleep", retry |-> 1]]
          /\ NoReturn
     ELSE /\ calls' = [calls EXCEPT ![c] = NoCall]
          /\ UNCHANGED busy_left
          /\ Return(c, ParseProcessOutput(out))
  /\ UNCHANGED << constVars, callVars, registryVars, ifaceVars, running, device_locks, enableVars, mgmtVars, orphans >>

\* lines 444-457: the process outlives the executor's deadline and is killed
ExecTimeout(c) ==
  /\ calls[c].st = "run"
  /\ InnerCanFire(c)
  /\ calls' = [calls EXCEPT ![c] = NoCall]
  /\ Return(c, TimeoutResponse)
  /\ UNCHANGED << constVars, callVars, registryVars, ifaceVars, running, device_locks, enableVars, mgmtVars, procVars >>

\* lines 397-405: the retry delay is over, the retry process is spawned
RetryWake(c) ==
  /\ calls[c].st = "rsleep"
  /\ calls' = [calls EXCEPT ![c].st = "rrun"]
  /\ NoReturn
  /\ UNCHANGED << constVars, callVars, registryVars, ifaceVars, running, device_locks, enableVars, mgmtVars, procVars >>

\* lines 395-432 after retry number calls[c].retry did not give a response:
\* next retry, or the first (busy) response after max_retries retries
RetryContinue(c) ==
  IF calls[c].retry < max_retries
  THEN /\ calls' = [calls EXCEPT ![c] = [st |-> "rsleep", retry |-> calls[c].retry + 1]]
       /\ NoReturn
  ELSE /\ calls' = [calls EXCEPT ![c] = NoCall]
       /\ Return(c, BusyResponse)

\* lines 407-423: the retry process exits
RetryExit(c, out) ==
  /\ calls[c].st = "rrun"
  /\ IF out.kind = "busy"
     THEN /\ busy_left > 0
          /\ busy_left' = busy_left - 1
          /\ RetryContinue(c)
     ELSE /\ calls' = [calls EXCEPT ![c] = NoCall]
          /\ UNCHANGED busy_left
          /\ Return(c, ParseProcessOutput(out))
  /\ UNCHANGED << constVars, callVars, registryVars, ifaceVars, running, device_locks, enableVars, mgmtVars, orphans >>

\* lines 425-427: the retry process outlives the deadline; it is neither
\* terminated nor killed
RetryTimeout(c) ==
  /\ calls[c].st = "rrun"
  /\ InnerCanFire(c)
  /\ orphans < MaxOrphans
  /\ orphans' = orphans + 1
  /\ RetryContinue(c)
  /\ UNCHANGED << constVars, callVars, registryVars, ifaceVars, running, device_locks, enableVars, mgmtVars, busy_left >>

\* the process of a cancelled call keeps running
Orphaned(c) ==
  IF calls[c].st \in {"run", "rrun"}
  THEN orphans + 1
  ELSE orphans

\* lines 423-426, 459-462 and 386-388: the wait_for deadline of the read expires,
\* execute_command is cancelled, poll_single_attribute raises TimeoutError and
\* _poll_device_attributes logs it and goes on with the next attribute
PollTimeout(t) ==
  LET tk == polling_tasks[t] IN
  /\ tk.pc = "read"
  /\ \/ OuterCanFire(t)
     \/ calls[t].st \in {"wait", "rsleep", "rrun"}
  /\ calls[t].st \in {"run", "rrun"} => orphans < MaxOrphans
  /\ orphans' = Orphaned(t)
  /\ calls' = [calls EXCEPT ![t] = NoCall]
  /\ polling_tasks' = [polling_tasks EXCEPT ![t] = ForNext(tk, tk.snap, tk.idx + 1)]
  /\ UNCHANGED << constVars, callVars, registryVars, ifaceVars, flagVars, device_locks, enableVars, mgmtVars, Attribute,
                  handlers, busy_left >>

\* a process nobody waits for exits
OrphanExit ==
  /\ orphans > 0
  /\ orphans' = orphans - 1
  /\ UNCHANGED << constVars, callVars, registryVars, ifaceVars, flagVars, polling_tasks, device_locks, enableVars,
                  mgmtVars, Attribute, handlers, calls, busy_left >>

(***************************************************************************)
(* External commands.  kind "command": POST /command                       *)
(* (APIInterface.execute_command), which pauses polling; kind "write":     *)
(* an attribute write (DeviceManager.write_device_attribute) or an MQTT    *)
(* set (MQTTInterface._handle_command_message), which call the executor    *)
(* directly.                                                               *)
(***************************************************************************)
HandlerKinds == {"command", "write"}

HandlerBegin(h, kind, d) ==
  /\ handlers[h].pc = "idle"
  /\ \A g \in HandlerIds : g < h => handlers[g].pc # "idle"
  /\ handlers' = [handlers EXCEPT ![h] = [pc |-> "exec", kind |-> kind, dev |-> d]]
  /\ IF kind = "command"
     THEN PausePolling
     ELSE UNCHANGED << command_in_progress, paused_for_command >>
  /\ calls' = [calls EXCEPT ![h] = StartCall]
  /\ UNCHANGED << constVars, callVars, registryVars, ifaceVars, running, polling_tasks, device_locks, enableVars,
                  mgmtVars, Attribute, procVars >>

\* a POST /command that has paused polling is in flight
CommandInFlight ==
  \E h \in HandlerIds : handlers[h].pc = "exec" /\ handlers[h].kind = "command"

(***************************************************************************)
(* Starting, extending and stopping the engine.                            *)
(***************************************************************************)
SlotsFree(tasks) == {t \in TaskIds : tasks[t].pc = "none"}

AppendTask(tasks, d) ==
  LET t == CHOOSE u \in SlotsFree(tasks) : \A w \in SlotsFree(tasks) : u <= w
  IN [tasks EXCEPT ![t] = NewTask(d)]

\* The order in which the device list of _get_unique_devices is walked.  The list
\* comes from a set; no code reads the position of a task in _polling_tasks, so
\* one order stands for all.
DeviceBefore(a, b) == a[1] < b[1] \/ (a[1] = b[1] /\ a[2] < b[2])

IterationOrder(S) ==
  CHOOSE o \in [1..Cardinality(S) -> S] :
    \A i, j \in 1..Cardinality(S) : i < j => DeviceBefore(o[i], o[j])

\* the for loops of start_polling_all_devices (lines 146-154) and of
\* rescan_and_add_new_devices (lines 203-210): a task is created for every device
\* that _is_device_already_polling does not report; acc.added are the devices
\* that got a task, acc.ok is false when the task bound is exceeded
RECURSIVE SpawnLoops(_, _)
SpawnLoops(order, acc) ==
  IF order = <<>> THEN acc
  ELSE LET d == Head(order) IN
       IF IsPollingIn(acc.tasks, device_locks, d)
       THEN SpawnLoops(Tail(order), acc)
       ELSE IF SlotsFree(acc.tasks) = {}
       THEN [acc EXCEPT !.ok = FALSE]
       ELSE SpawnLoops(Tail(order),
                       [acc EXCEPT !.tasks = AppendTask(acc.tasks, d),
                                   !.added = @ \cup {d}])

SpawnStart == [tasks |-> polling_tasks, added |-> {}, ok |-> TRUE]

\* PollingSubscriptionManager.start_polling_all_devices
start_polling_all_devices ==
  /\ ~running
  /\ running' = TRUE
  /\ LET devices == GetUniqueDevices IN
     IF devices = {}
     THEN UNCHANGED << polling_tasks, discovery_task >>
     ELSE LET r == SpawnLoops(IterationOrder(devices), SpawnStart) IN
          /\ r.ok
          /\ polling_tasks' = r.tasks
          /\ discovery_task' = IF config.auto_discovery_interval > 0
                               THEN "active" ELSE discovery_task
  /\ UNCHANGED << constVars, callVars, registryVars, ifaceVars, paused_for_command, command_in_progress, device_locks,
                  enableVars, stop_pc, Attribute, handlers, calls, procVars >>

\* PollingState.enable_device for a set of devices
EnableDevices(D) ==
  /\ polling_enabled' = [d \in DeviceKeys |-> IF d \in D THEN TRUE ELSE polling_enabled[d]]
  /\ error_counts' = [d \in DeviceKeys |-> IF d \in D THEN 0 ELSE error_counts[d]]

\* PollingSubscriptionManager.add_new_device_polling
add_new_device_polling(d) ==
  /\ running
  /\ ~IsDeviceAlreadyPolling(d)
  /\ GetDeviceAttributes(d) # <<>>
  /\ FreeSlots # {}
  /\ EnableDevices({d})
  /\ polling_tasks' = AppendTask(polling_tasks, d)
  /\ UNCHANGED << constVars, callVars, registryVars, ifaceVars, flagVars, device_locks, mgmtVars, Attribute, handlers,
                  calls, procVars >>

\* the body of rescan_and_add_new_devices: add_new_device_polling for the devices
\* of the Attribute table that are not reported as polling
Rescan ==
  LET r == SpawnLoops(IterationOrder(GetUniqueDevices), SpawnStart) IN
  /\ r.ok
  /\ polling_tasks' = r.tasks
  /\ EnableDevices(r.added)

\* PollingSubscriptionManager.rescan_and_add_new_devices called through
\* MatterverseApplication._handle_device_commissioned
rescan_and_add_new_devices ==
  /\ running
  /\ Rescan
  /\ UNCHANGED << constVars, callVars, registryVars, ifaceVars, flagVars, device_locks, mgmtVars, Attribute, handlers,
                  calls, procVars >>

\* PollingSubscriptionManager._auto_discovery_loop: one period
AutoDiscovery ==
  /\ discovery_task = "active"
  /\ running
  /\ Rescan
  /\ UNCHANGED << constVars, callVars, registryVars, ifaceVars, flagVars, device_locks, mgmtVars, Attribute, handlers,
                  calls, procVars >>

\* PollingSubscriptionManager.restart_device_polling
restart_device_polling(d) ==
  /\ FreeSlots # {}
  /\ EnableDevices({d})
  /\ polling_tasks' = AppendTask(polling_tasks, d)
  /\ UNCHANGED << constVars, callVars, registryVars, ifaceVars, flagVars, device_locks, mgmtVars, Attribute, handlers,
                  calls, procVars >>

\* PollingSubscriptionManager.get_polling_status: _cleanup_completed_tasks
get_polling_status ==
  /\ \E t \in TaskIds : polling_tasks[t].pc = "done"
  /\ polling_tasks' = [t \in TaskIds |->
                         IF polling_tasks[t].pc = "done" THEN NoTask ELSE polling_tasks[t]]
  /\ UNCHANGED << constVars, callVars, registryVars, ifaceVars, flagVars, device_locks, enableVars, mgmtVars, Attribute,
                  handlers, calls, procVars >>

\* stop_polling lines 268-274: every task of the list that is not done is
\* cancelled; the task leaves its locks, its execute_command is cancelled and the
\* process of that call keeps running
Cancelled == {t \in TaskIds : polling_tasks[t].listed /\ polling_tasks[t].pc # "done"}

CancelTasks ==
  LET lost == {t \in Cancelled : calls[t].st \in {"run", "rrun"}} IN
  /\ orphans + Cardinality(lost) <= MaxOrphans
  /\ orphans' = orphans + Cardinality(lost)
  /\ calls' = [c \in CallerIds |-> IF c \in Cancelled THEN NoCall ELSE calls[c]]
  /\ IF \E t \in TaskIds : polling_tasks[t].listed
     THEN /\ polling_tasks' = [t \in TaskIds |->
                                 IF t \in Cancelled THEN Finished(polling_tasks[t])
                                 ELSE polling_tasks[t]]
          /\ stop_pc' = "gather"
     ELSE /\ UNCHANGED polling_tasks
          /\ stop_pc' = "idle"

\* stop_polling lines 257-265
StopBegin ==
  /\ stop_pc = "idle"
  /\ running' = FALSE
  /\ IF discovery_task = "active"
     THEN /\ discovery_task' = "none"
          /\ stop_pc' = "cancel"
          /\ UNCHANGED << polling_tasks, calls, orphans >>
     ELSE /\ UNCHANGED discovery_task
          /\ CancelTasks
  /\ UNCHANGED << constVars, callVars, registryVars, ifaceVars, paused_for_command, command_in_progress, device_locks,
                  enableVars, Attribute, handlers, busy_left >>

\* stop_polling lines 267-274, after the discovery task has ended
StopCancel ==
  /\ stop_pc = "cancel"
  /\ CancelTasks
  /\ UNCHANGED << constVars, callVars, registryVars, ifaceVars, flagVars, device_locks, enableVars, discovery_task,
                  Attribute, handlers, busy_left >>

\* stop_polling line 276: self._polling_tasks.clear()
StopClear ==
  /\ stop_pc = "gather"
  /\ stop_pc' = "idle"
  /\ polling_tasks' = [t \in TaskIds |->
                         IF polling_tasks[t].pc = "done" THEN NoTask
                         ELSE [polling_tasks[t] EXCEPT !.listed = FALSE]]
  /\ UNCHANGED << constVars, callVars, registryVars, ifaceVars, flagVars, device_locks, enableVars, discovery_task,
                  Attribute, handlers, calls, procVars, callVars, registryVars, ifaceVars >>

\* The next row of the enumeration enters the Attribute table: the INSERT of
\* Database.create_attribute_entry (lines 600-603) issued by a writer of the
\* database file.  Called on the application's own Database object the method
\* raises AttributeError at line 598 (get_attribute_type_by_name) before the
\* INSERT, so the application itself adds no row.
InsertAttributeRow ==
  /\ Len(Attribute) < Len(AllRows)
  /\ Attribute' = Append(Attribute, NewRow(Len(Attribute) + 1))
  /\ UNCHANGED << constVars, callVars, registryVars, ifaceVars, flagVars, polling_tasks, device_locks, enableVars,
                  mgmtVars, handlers, calls, procVars >>

(***************************************************************************)
(* The engine with external commands: the Registry holds the rows of an    *)
(* earlier run and the devices still report the stored value.              *)
(***************************************************************************)
Init ==
  InitWith(ConfigSet, {PolledTable(n, "true") : n \in 2..Len(AllRows)}, {TrueValue},
           MaxProcesses, 0)

Next ==
  \/ start_polling_all_devices
  \/ \E d \in DeviceKeys : add_new_device_polling(d)
  \/ rescan_and_add_new_devices
  \/ AutoDiscovery
  \/ \E d \in DeviceKeys : restart_device_polling(d)
  \/ get_polling_status
  \/ StopBegin
  \/ StopCancel
  \/ StopClear
  \/ \E t \in TaskIds : LoopTop(t)
  \/ \E t \in TaskIds : SemAcquire(t)
  \/ \E t \in TaskIds : LockAcquire(t)
  \/ \E t \in TaskIds : ExecStart(t)
  \/ \E t \in TaskIds : Gap(t)
  \/ \E t \in TaskIds : Wake(t)
  \/ \E t \in TaskIds : PollTimeout(t)
  \/ \E c \in CallerIds : ExecSemAcquire(c)
  \/ \E c \in CallerIds, out \in Outcomes : ProcessExit(c, out)
  \/ \E c \in CallerIds : ExecTimeout(c)
  \/ OrphanExit
  \/ \E h \in HandlerIds, kind \in HandlerKinds, d \in DeviceKeys : HandlerBegin(h, kind, d)

Spec == Init /\ [][Next]_vars

(***************************************************************************)
(* Polling alone: a freshly enumerated Registry, devices that report       *)
(* changing values, no external command.                                   *)
(***************************************************************************)
InitPoll ==
  InitWith(ConfigSet, {InitialTable(n) : n \in 2..Len(AllRows)}, RawValues, MaxProcesses, 0)

NextPoll ==
  \/ start_polling_all_devices
  \/ \E d \in DeviceKeys : restart_device_polling(d)
  \/ \E t \in TaskIds : LoopTop(t)
  \/ \E t \in TaskIds : SemAcquire(t)
  \/ \E t \in TaskIds : LockAcquire(t)
  \/ \E t \in TaskIds : ExecStart(t)
  \/ \E t \in TaskIds : Gap(t)
  \/ \E t \in TaskIds : Wake(t)
  \/ \E t \in TaskIds : PollTimeout(t)
  \/ \E c \in CallerIds, out \in Outcomes : ProcessExit(c, out)
  \/ \E c \in CallerIds : ExecTimeout(c)
  \/ OrphanExit

SpecPoll == InitPoll /\ [][NextPoll]_vars

(***************************************************************************)
(* The engine under the scheduling the event loop guarantees: a coroutine  *)
(* that can continue does continue, a chip-tool process ends, the          *)
(* discovery period elapses.  External commands and new Registry rows come *)
(* whenever their senders choose.                                          *)
(***************************************************************************)
InitLive ==
  InitWith(ConfigSet, {InitialTable(0), PolledTable(Len(AllRows), "true")}, {TrueValue},
           MaxProcesses, 0)

NextLive ==
  \/ start_polling_all_devices
  \/ InsertAttributeRow
  \/ AutoDiscovery
  \/ \E t \in TaskIds : LoopTop(t)
  \/ \E t \in TaskIds : SemAcquire(t)
  \/ \E t \in TaskIds : LockAcquire(t)
  \/ \E t \in TaskIds : ExecStart(t)
  \/ \E t \in TaskIds : Gap(t)
  \/ \E t \in TaskIds : Wake(t)
  \/ \E c \in CallerIds : ExecSemAcquire(c)
  \/ \E c \in CallerIds, out \in Outcomes : ProcessExit(c, out)
  \/ \E h \in HandlerIds, kind \in HandlerKinds, d \in DeviceKeys : HandlerBegin(h, kind, d)

Fairness ==
  /\ \A t \in TaskIds :
       /\ WF_vars(LoopTop(t))
       /\ WF_vars(SemAcquire(t))
       /\ WF_vars(LockAcquire(t))
       /\ WF_vars(ExecStart(t))
       /\ WF_vars(Gap(t))
       /\ WF_vars(Wake(t))
  /\ \A c \in CallerIds :
       /\ WF_vars(ExecSemAcquire(c))
       /\ WF_vars(\E out \in Outcomes : ProcessExit(c, out))
  /\ WF_vars(AutoDiscovery)

SpecLive == InitLive /\ [][NextLive]_vars /\ Fairness

(***************************************************************************)
(* The executor alone: external commands against a chip-tool that can      *)
(* answer 'Resource is busy', with one process slot.                       *)
(***************************************************************************)
InitExec == InitWith(ConfigSet, {PolledTable(Len(AllRows), "true")}, {TrueValue}, 1, MaxBusy)

NextExec ==
  \/ \E h \in HandlerIds, kind \in HandlerKinds, d \in DeviceKeys : HandlerBegin(h, kind, d)
  \/ \E c \in CallerIds, out \in Outcomes : ProcessExit(c, out)
  \/ \E c \in CallerIds : ExecTimeout(c)
  \/ \E c \in CallerIds : RetryWake(c)
  \/ \E c \in CallerIds, out \in Outcomes : RetryExit(c, out)
  \/ \E c \in CallerIds : RetryTimeout(c)
  \/ OrphanExit

SpecExec == InitExec /\ [][NextExec]_vars

(***************************************************************************)
(* One _execute_in_new_process call, step by step, with what its chip-tool *)
(* processes print.                                                         *)
(***************************************************************************)
\* What a chip-tool process prints before it exits.  stderr "error" is a stderr
\* with one of the words of lines 556-557; dmg is what the [DMG] payload of
\* stdout holds: "empty" (delete_garbage_from_output returns ''), "unparsed"
\* (extract_named_blocks finds blocks and parse_chip_data returns None for each
\* of them), "report" (a ReportDataMessage that parses) or "invoke" (an
\* InvokeResponseMessage of the new node whose CommandFields 0x0 is "0").
ProcessOutputs ==
  {[stderr |-> "clean", busy |-> b, dmg |-> d] :
      b \in BOOLEAN, d \in {"empty", "unparsed", "report"}}
  \cup {[stderr |-> "clean", busy |-> FALSE, dmg |-> "invoke"],
        [stderr |-> "error", busy |-> FALSE, dmg |-> "empty"]}
NoOutput == [stderr |-> "clean", busy |-> FALSE, dmg |-> "none"]

\* ChipToolParser.parse_chip_data on the blocks of a cleaned output: the blocks
\* that parse, in order.  Every exception is caught and gives None.
parse_chip_data(out) ==
  IF out.dmg \in {"report", "invoke"} THEN << out.dmg >> ELSE << >>

\* The expression of lines 518 and 601:
\*   formatted_data if 'formatted_data' in locals()
\*     else (parsed_data if 'parsed_data' in locals() else stdout_str.strip())
\* reached with no formatted block: parsed_data is a local as soon as one block
\* went through parse_chip_data, and it is None then.
RawOutput(k, out) ==
  IF out.dmg = "unparsed" THEN NoText ELSE StdoutOf(k, out)

\* _parse_process_output for the output of process k
ParseProcessOutputOf(k, out) ==
  IF out.stderr = "error" THEN Response("error", "none", NoText, << >>)
  ELSE IF parse_chip_data(out) # << >>
       THEN Response("success", "block", NoText, << Head(parse_chip_data(out)) >>)
       ELSE Response("success", "raw", RawOutput(k, out), << >>)

\* _parse_commissioning_output for the output of process k: a non-empty cleaned
\* output gives the list of the formatted blocks, whatever its length
ParseCommissioningOutput(k, out) ==
  IF out.stderr = "error" THEN Response("error", "none", NoText, << >>)
  ELSE IF out.dmg # "empty"
       THEN Response("success", "list", NoText, parse_chip_data(out))
       ELSE Response("success", "raw", RawOutput(k, out), << >>)

\* Lines 382-385: the parser of the first process depends on the command
ParseFirst(command, out) ==
  IF command = "pairing" THEN ParseCommissioningOutput(1, out)
  ELSE ParseProcessOutputOf(1, out)

\* The condition of lines 387-390 and 414-417
ResourceBusy(response) ==
  /\ response.shape = "raw"
  /\ response.raw_output # NoText
  /\ response.raw_output.busy

\* Lines 453-457 and 461-465
TimeoutResponseOf == Response("timeout", "none", NoText, << >>)
SpawnErrorResponse == Response("error", "none", NoText, << >>)

\* The kinds of item a response list can hold, as _format_parsed_data makes
\* them: an InvokeResponseMessage of the new node with command_fields 0x0 = "0"
\* ("invoke") or with another 0x0 ("refused"), one with a StatusIB and no
\* command_fields ("status"), a ReportDataMessage of the new node ("report"), a
\* message of another node ("other"), and the {"raw_data": ...} of
\* _extract_basic_info, which has no node ("raw").
ItemKinds == {"invoke", "refused", "status", "report", "other", "raw"}

\* The loop of lines 751-755 over the items.  item['node'] raises KeyError on an
\* item without node, item['command_fields'] on an item of the node without
\* command_fields; the except clause of lines 759-761 then returns False.
RECURSIVE ScanItems(_)
ScanItems(items) ==
  IF items = << >> THEN FALSE
  ELSE LET item == Head(items) IN
       IF item = "raw" THEN FALSE
       ELSE IF item = "other" THEN ScanItems(Tail(items))
       ELSE IF item \in {"status", "report"} THEN FALSE
       ELSE IF item = "invoke" THEN TRUE
       ELSE ScanItems(Tail(items))

\* ProcessBasedChipToolManager.commissioning, lines 750-761, on the response of
\* its pairing command: iterating a dict yields its keys, and item['node'] on a
\* key raises into the except clause.
Commissioned(response) ==
  /\ response.shape = "list"
  /\ ScanItems(response.items)

\* A chip-tool process: running or not, what it printed, the signals it was
\* sent, and whether it outlived the deadline of wait_for
NewProcess == [alive |-> TRUE, out |-> NoOutput, signals |-> << >>, late |-> FALSE]
Exited(p, out) == [p EXCEPT !.alive = FALSE, !.out = out]
Signalled(p, sig) == [p EXCEPT !.signals = Append(@, sig)]

CallCommands == {"read", "pairing"}

\* Lines 434-442, and for a pairing command the rest of commissioning: delete
\* chip_tool_config.ini if it exists and return the response.
ReturnResponse(r, response) ==
  /\ config_ini' = FALSE
  /\ run' = [r EXCEPT !.pc = "done", !.result = response,
                      !.commissioned = (r.command = "pairing" /\ Commissioned(response))]

\* The returns of lines 453-457 and 461-465, and for a pairing command the rest
\* of commissioning: chip_tool_config.ini is left as it is.
ReturnEarly(r, response) ==
  /\ UNCHANGED config_ini
  /\ run' = [r EXCEPT !.pc = "done", !.result = response, !.commissioned = FALSE]

\* Lines 395 and 431-432: the next iteration of the retry loop, or its else
\* clause, where response is still the response of the first process.
NextRetry(r) ==
  IF r.retry_count + 1 < max_retries
  THEN /\ run' = [r EXCEPT !.pc = "rsleep", !.retry_count = @ + 1]
       /\ UNCHANGED config_ini
  ELSE ReturnResponse(r, r.response)

EngineIdle ==
  UNCHANGED << constVars, flagVars, polling_tasks, device_locks, enableVars, mgmtVars,
               Attribute, handlers, calls, procVars >>

\* Lines 348-371: create_subprocess_exec starts the first process, or raises
\* into the handler of lines 459-465.  A chip-tool that starts writes its
\* session state to chip_tool_config.ini.
CallBegin(command, spawned) ==
  /\ run.pc = "idle"
  /\ LET r == [run EXCEPT !.command = command] IN
     IF spawned
     THEN /\ run' = [r EXCEPT !.pc = "comm", !.procs = << NewProcess >>]
          /\ config_ini' = TRUE
     ELSE ReturnEarly(r, SpawnErrorResponse)
  /\ EngineIdle
  /\ UNCHANGED << registryVars, ifaceVars >>

\* Lines 375-397 and 434-442: the first process exits before the deadline.
CommunicateDone(out) ==
  /\ run.pc = "comm"
  /\ LET r == [run EXCEPT !.procs[1] = Exited(@, out),
                          !.response = ParseFirst(run.command, out)] IN
     IF ResourceBusy(r.response)
     THEN /\ run' = [r EXCEPT !.pc = "rsleep"]
          /\ UNCHANGED config_ini
     ELSE ReturnResponse(r, r.response)
  /\ EngineIdle
  /\ UNCHANGED << registryVars, ifaceVars >>

\* Lines 444-448: the first process outlives the deadline; process.terminate()
CommunicateTimeout ==
  /\ run.pc = "comm"
  /\ run' = [run EXCEPT !.pc = "term",
                        !.procs[1] = Signalled([@ EXCEPT !.late = TRUE], "SIGTERM")]
  /\ UNCHANGED config_ini
  /\ EngineIdle
  /\ UNCHANGED << registryVars, ifaceVars >>

\* Lines 448 and 453-457: the process exits within 5 s of SIGTERM
TerminateDone ==
  /\ run.pc = "term"
  /\ ReturnEarly([run EXCEPT !.procs[1] = Exited(@, NoOutput)], TimeoutResponseOf)
  /\ EngineIdle
  /\ UNCHANGED << registryVars, ifaceVars >>

\* Lines 449-451: it does not; process.kill()
TerminateTimeout ==
  /\ run.pc = "term"
  /\ run' = [run EXCEPT !.pc = "kill", !.procs[1] = Signalled(@, "SIGKILL")]
  /\ UNCHANGED config_ini
  /\ EngineIdle
  /\ UNCHANGED << registryVars, ifaceVars >>

\* Lines 451-457: process.wait() returns after SIGKILL
KillDone ==
  /\ run.pc = "kill"
  /\ ReturnEarly([run EXCEPT !.procs[1] = Exited(@, NoOutput)], TimeoutResponseOf)
  /\ EngineIdle
  /\ UNCHANGED << registryVars, ifaceVars >>

\* Lines 397-409 and 428-430: the sleep is over; create_subprocess_exec starts
\* a retry process, or raises and the loop continues.
RetrySpawn(spawned) ==
  /\ run.pc = "rsleep"
  /\ LET r == [run EXCEPT !.retries = @ + 1] IN
     IF spawned
     THEN /\ run' = [r EXCEPT !.pc = "rcomm", !.procs = Append(@, NewProcess)]
          /\ config_ini' = TRUE
     ELSE NextRetry(r)
  /\ EngineIdle
  /\ UNCHANGED << registryVars, ifaceVars >>

\* Lines 407-423: the retry process exits before the deadline.
RetryDone(out) ==
  /\ run.pc = "rcomm"
  /\ LET k == Len(run.procs)
         r == [run EXCEPT !.procs[k] = Exited(@, out)]
         retry_response == ParseProcessOutputOf(k, out) IN
     IF ~ResourceBusy(retry_response)
     THEN ReturnResponse([r EXCEPT !.response = retry_response], retry_response)
     ELSE NextRetry(r)
  /\ EngineIdle
  /\ UNCHANGED << registryVars, ifaceVars >>

\* Lines 425-427: the retry process outlives the deadline; continue
RetryCommTimeout ==
  /\ run.pc = "rcomm"
  /\ NextRetry([run EXCEPT !.procs[Len(run.procs)].late = TRUE])
  /\ EngineIdle
  /\ UNCHANGED << registryVars, ifaceVars >>

InitCall ==
  /\ InitEngine({CHOOSE c \in ConfigSet : TRUE}, {InitialTable(0)}, {TrueValue}, 1, 0)
  /\ run = NoRun
  /\ config_ini \in BOOLEAN
  /\ RegistryEmpty
  /\ InterfacesIdle

NextCall ==
  \/ \E command \in CallCommands, spawned \in BOOLEAN : CallBegin(command, spawned)
  \/ \E out \in ProcessOutputs : CommunicateDone(out)
  \/ CommunicateTimeout
  \/ TerminateDone
  \/ TerminateTimeout
  \/ KillDone
  \/ \E spawned \in BOOLEAN : RetrySpawn(spawned)
  \/ \E out \in ProcessOutputs : RetryDone(out)
  \/ RetryCommTimeout

SpecCall == InitCall /\ [][NextCall]_vars

(***************************************************************************)
(* The Registry: register_new_device, the DELETE route and the node IDs.   *)
(***************************************************************************)
MaxCycles == 3
Endpoints == {1, 2}

\* The NodeID column of the Device table
DeviceNodeIDs == {d[1] : d \in Device}

\* Database.get_new_node_id: SELECT MAX(NodeID) FROM Device, plus 1, or 1
get_new_node_id ==
  IF Device = {} THEN 1
  ELSE (CHOOSE n \in DeviceNodeIDs : \A m \in DeviceNodeIDs : m <= n) + 1

\* register_new_device returns; failed is the negation of what it returns
RegistrationReturn(g, failed) ==
  registration' = [g EXCEPT !.pc = "idle", !.failed = failed]

\* Lines 52-59: a newly commissioned node is to be registered; node_id is
\* get_new_node_id(), then the unique-id read is awaited.
RegisterBegin ==
  /\ registration.pc = "idle"
  /\ registration.cycles < MaxCycles
  /\ registration' = [registration EXCEPT !.pc = "unique", !.node_id = get_new_node_id,
                         !.endpoints = {}, !.inserted = {}, !.failed = FALSE,
                         !.cycles = @ + 1]
  /\ UNCHANGED << Device, UniqueID >>
  /\ EngineIdle
  /\ UNCHANGED << callVars, ifaceVars >>

\* Lines 59-83: the unique-id read fails and the call returns False, or the
\* names are read and insert_unique_id runs: INSERT INTO UniqueID, where a
\* NodeID that has a row raises IntegrityError and the call returns False.
RegisterUniqueId(read) ==
  /\ registration.pc = "unique"
  /\ LET g == registration IN
     IF ~read
     THEN /\ RegistrationReturn([g EXCEPT !.faults = TRUE], TRUE)
          /\ UNCHANGED UniqueID
     ELSE IF g.node_id \in UniqueID
     THEN /\ RegistrationReturn(g, TRUE)
          /\ UNCHANGED UniqueID
     ELSE /\ UniqueID' = UniqueID \cup {g.node_id}
          /\ registration' = [g EXCEPT !.pc = "endpoints",
                                       !.inserted = @ \cup {<< "UniqueID", g.node_id, 0 >>}]
  /\ UNCHANGED Device
  /\ EngineIdle
  /\ UNCHANGED << callVars, ifaceVars >>

\* Lines 83-86: the endpoint list of the node; an empty list returns False
RegisterEndpoints(endpoints) ==
  /\ registration.pc = "endpoints"
  /\ IF endpoints = {}
     THEN RegistrationReturn([registration EXCEPT !.faults = TRUE], TRUE)
     ELSE registration' = [registration EXCEPT !.pc = "types", !.endpoints = endpoints]
  /\ UNCHANGED << Device, UniqueID >>
  /\ EngineIdle
  /\ UNCHANGED << callVars, ifaceVars >>

\* Lines 89-113, one iteration: the device types of the next endpoint are read.
\* With types ("types") insert_device runs: INSERT INTO Device, where an existing
\* (NodeID, Endpoint) raises IntegrityError and the loop continues.  Without
\* types ("none") the endpoint is skipped.  An exception ("raise") reaches the
\* handler of lines 111-113, which returns False.  After the last endpoint the
\* call returns True.
RegisterEndpoint(types) ==
  /\ registration.pc = "types"
  /\ LET g == registration
         endpoint == CHOOSE e \in g.endpoints : \A f \in g.endpoints : e <= f
         d == << g.node_id, endpoint >>
         insert == types = "types" /\ d \notin Device
         h == [g EXCEPT !.endpoints = @ \ {endpoint},
                        !.faults = @ \/ types # "types",
                        !.inserted = IF insert THEN @ \cup {<< "Device", d[1], d[2] >>}
                                     ELSE @] IN
     /\ Device' = IF insert THEN Device \cup {d} ELSE Device
     /\ IF types = "raise" THEN RegistrationReturn(h, TRUE)
        ELSE IF h.endpoints = {} THEN RegistrationReturn(h, FALSE)
        ELSE registration' = h
  /\ UNCHANGED UniqueID
  /\ EngineIdle
  /\ UNCHANGED << callVars, ifaceVars >>

\* DELETE /device/{node_id}/{endpoint}: DeviceManager.delete_device and
\* Database.delete_device, DELETE FROM Device WHERE NodeID = ? AND Endpoint = ?
delete_device(node_id, endpoint) ==
  /\ << node_id, endpoint >> \in Device
  /\ Device' = Device \ {<< node_id, endpoint >>}
  /\ registration' = [registration EXCEPT !.deleted = @ \cup {<< node_id, endpoint >>}]
  /\ UNCHANGED UniqueID
  /\ EngineIdle
  /\ UNCHANGED << callVars, ifaceVars >>

\* The rows of a device are written to the Attribute table once the device has
\* its Device row.
InsertAttributeOfDevice ==
  /\ Len(Attribute) < Len(AllRows)
  /\ DeviceOf(AllRows[Len(Attribute) + 1]) \in Device
  /\ InsertAttributeRow

InitRegistry ==
  /\ InitEngine({CHOOSE c \in ConfigSet : TRUE}, {InitialTable(0)}, {TrueValue}, 1, 0)
  /\ CallIdle
  /\ RegistryEmpty
  /\ InterfacesIdle

NextRegistry ==
  \/ RegisterBegin
  \/ \E read \in BOOLEAN : RegisterUniqueId(read)
  \/ \E endpoints \in SUBSET Endpoints : RegisterEndpoints(endpoints)
  \/ \E types \in {"types", "none", "raise"} : RegisterEndpoint(types)
  \/ \E node_id \in 1..MaxCycles, endpoint \in Endpoints : delete_device(node_id, endpoint)
  \/ InsertAttributeOfDevice

SpecRegistry == InitRegistry /\ [][NextRegistry]_vars

(***************************************************************************)
(* The Attribute table under create_attribute_entry and update_attribute.  *)
(***************************************************************************)
\* Row i of the enumeration with all its columns
StoredRow(i, type, value) ==
  [NodeID |-> AllRows[i].NodeID, Endpoint |-> AllRows[i].Endpoint,
   Cluster |-> AllRows[i].Cluster, Attribute |-> AllRows[i].Attribute,
   Type |-> type, Value |-> value]

\* The SELECT of lines 583-588: the row of the table with the key of row i
ExistingRow(table, i) ==
  {j \in DOMAIN table :
     /\ table[j].NodeID = AllRows[i].NodeID
     /\ table[j].Endpoint = AllRows[i].Endpoint
     /\ table[j].Cluster = AllRows[i].Cluster
     /\ table[j].Attribute = AllRows[i].Attribute}

\* What a call on the Database object leaves behind: its outcome, and no other
\* state than the Attribute table touched
DatabaseCall(op, key, result) ==
  /\ request' = [op |-> op, key |-> key, result |-> result]
  /\ UNCHANGED << constVars, callVars, registryVars, flagVars, polling_tasks, device_locks,
                  enableVars, mgmtVars, handlers, calls, procVars, published,
                  connected_clients >>

\* Database.create_attribute_entry for the key of row i.  An existing row is
\* left as it is and the call returns True.  For a new row the Type comes from
\* self.data_model.get_attribute_type_by_name (line 598): the data model has no
\* such method, the AttributeError is no sqlite3.Error and leaves the call
\* before the INSERT.
create_attribute_entry(i) ==
  /\ IF ExistingRow(Attribute, i) # {}
     THEN /\ Attribute' = Attribute
          /\ DatabaseCall("create_attribute_entry", i, "true")
     ELSE IF "get_attribute_type_by_name" \in DataModelMethods
     THEN /\ Attribute' = Append(Attribute, StoredRow(i, "unknown", NULL))
          /\ DatabaseCall("create_attribute_entry", i, "true")
     ELSE /\ Attribute' = Attribute
          /\ DatabaseCall("create_attribute_entry", i, "raise")

\* Database.update_attribute on the report of a read of row i's attribute:
\* UPDATE Attribute SET Value = ? on the existing row, nothing without one
UpdateAttribute(i, value) ==
  /\ Attribute' = UpdateAttributeValue(Attribute, AllRows[i].NodeID, AllRows[i].Endpoint,
                                       AllRows[i].Cluster, AllRows[i].Attribute, value)
  /\ DatabaseCall("update_attribute", i, "true")

\* The Type column: what the data model gave at the INSERT, or "unknown"
AttributeTypes == {"bool", "unknown"}

\* The Attribute tables of a Registry file: the first n rows of the
\* enumeration, each with the Type it was inserted with and no value yet
StoredTables ==
  UNION {{[i \in 1..n |-> StoredRow(i, type[i], NULL)] : type \in [1..n -> AttributeTypes]} :
           n \in 0..Len(AllRows)}

InitAttribute ==
  InitWith({CHOOSE c \in ConfigSet : TRUE}, StoredTables, {TrueValue}, 1, 0)

NextAttribute ==
  \/ \E i \in 1..Len(AllRows) : create_attribute_entry(i)
  \/ \E i \in 1..Len(AllRows), value \in {"true", "1"} : UpdateAttribute(i, value)

SpecAttribute == InitAttribute /\ [][NextAttribute]_vars

(***************************************************************************)
(* commissioning on the response lists _parse_commissioning_output can     *)
(* return.                                                                  *)
(***************************************************************************)
MaxItems == 3

\* The response lists of up to MaxItems items
ResponseLists == UNION {[1..n -> ItemKinds] : n \in 0..MaxItems}

\* commissioning returns for the response list it was given
CommissioningReturns ==
  /\ request.op = "commissioning"
  /\ request.result = "none"
  /\ request' = [request EXCEPT !.result =
                   IF Commissioned(Response("success", "list", NoText, request.items))
                   THEN "true" ELSE "false"]
  /\ UNCHANGED << constVars, callVars, registryVars, flagVars, polling_tasks, device_locks,
                  enableVars, mgmtVars, Attribute, handlers, calls, procVars, published,
                  connected_clients >>

InitCommissioning ==
  /\ InitEngine({CHOOSE c \in ConfigSet : TRUE}, {InitialTable(0)}, {TrueValue}, 1, 0)
  /\ CallIdle
  /\ RegistryEmpty
  /\ request \in {[op |-> "commissioning", items |-> items, result |-> "none"] :
                    items \in ResponseLists}
  /\ published = << >>
  /\ connected_clients = {}

SpecCommissioning == InitCommissioning /\ [][CommissioningReturns]_vars

(***************************************************************************)
(* The interfaces: the REST routes of APIInterface, MQTTInterface,          *)
(* WebSocketInterface and the callbacks MatterverseApplication wires        *)
(* between them.  One call is followed at a time; request holds the call    *)
(* and its outcome, published the messages the call handed to the MQTT      *)
(* client.                                                                  *)
(***************************************************************************)
MaxClients == 2

\* The WebSocket connections that can be open
Clients == 1..MaxClients

\* What no route, callback or MQTT handler below writes
InterfaceRest ==
  UNCHANGED << constVars, callVars, polling_tasks, device_locks, enableVars, mgmtVars,
               Attribute, handlers, calls, procVars, UniqueID, registration >>

\* A call that has been answered leaves request behind; a command that is
\* still running has pc = "exec"
CommandRunning == "pc" \in DOMAIN request /\ request.pc = "exec"

\* DeviceManager.generate_topic_id: the SHA-256 hex digest of
\* f"{node_id}-{endpoint}-{unique_id}", kept as the text it is the digest of
generate_topic_id(node_id, endpoint) ==
  "sha256(" \o ToString(node_id) \o "-" \o ToString(endpoint) \o "-uid)"

\* The row of the Device table for a device, in the columns of
\* SELECT NodeID, Endpoint, DeviceType, TopicID
DeviceRow(d) ==
  [NodeID |-> d[1], Endpoint |-> d[2], DeviceType |-> 256,
   TopicID |-> generate_topic_id(d[1], d[2])]

\* Database.get_device_by_node_id_endpoint: dict(row) of the matching row (none
\* or one)
get_device_by_node_id_endpoint(node_id, endpoint) ==
  {DeviceRow(d) : d \in {e \in Device : e = << node_id, endpoint >>}}

\* Database.get_device_by_topic_id: dict(row) of the matching row (none or one)
get_device_by_topic_id(topic_id) ==
  {r \in {DeviceRow(d) : d \in Device} : r.TopicID = topic_id}

\* cluster_name.lower().replace("/", "").replace(" ", "")
ClusterFormatted(cluster_name) ==
  CASE cluster_name = "On/Off" -> "onoff"
    [] cluster_name = "Level Control" -> "levelcontrol"
    [] OTHER -> cluster_name

\* re.sub(r'(?<!^)(?<![A-Z])(?=[A-Z])', '-', attribute_name).lower()
AttributeFormatted(attribute_name) ==
  CASE attribute_name = "OnOff" -> "on-off"
    [] attribute_name = "CurrentLevel" -> "current-level"
    [] OTHER -> attribute_name

\* The loop of lines 154-160 over clients_copy: a send that raises puts the
\* client into disconnected_clients, any other counts as successful
RECURSIVE SendToAll(_, _, _)
SendToAll(clients_copy, failing, acc) ==
  IF clients_copy = << >> THEN acc
  ELSE LET websocket == Head(clients_copy) IN
       SendToAll(Tail(clients_copy), failing,
                 IF websocket \in failing
                 THEN [acc EXCEPT !.disconnected_clients = @ \cup {websocket}]
                 ELSE [acc EXCEPT !.successful_sends = @ + 1,
                                  !.received = @ \cup {websocket}])

\* broadcast_to_all_clients without the removal of lines 163-165
broadcast_to_all_clients_keeping(clients, failing) ==
  LET r == SendToAll(IF clients = {} THEN << >>
                     ELSE CHOOSE o \in [1..Cardinality(clients) -> clients] :
                            \A i, j \in 1..Cardinality(clients) : i # j => o[i] # o[j],
                     failing,
                     [successful_sends |-> 0, disconnected_clients |-> {}, received |-> {}])
  IN [clients |-> clients, received |-> r.received, count |-> r.successful_sends]

\* WebSocketInterface.broadcast_to_all_clients on the connected set, where the
\* sends to the clients in failing raise: the set afterwards, the clients that
\* got the message and the count returned
broadcast_to_all_clients(clients, failing) ==
  IF clients = {}
  THEN [clients |-> clients, received |-> {}, count |-> 0]
  ELSE LET clients_copy == CHOOSE o \in [1..Cardinality(clients) -> clients] :
                             \A i, j \in 1..Cardinality(clients) : i # j => o[i] # o[j]
           r == SendToAll(clients_copy, failing,
                          [successful_sends |-> 0, disconnected_clients |-> {},
                           received |-> {}])
       IN [clients |-> clients \ r.disconnected_clients, received |-> r.received,
           count |-> r.successful_sends]

\* WebSocketInterface.connect_client
connect_client(c) ==
  /\ ~CommandRunning
  /\ c \notin connected_clients
  /\ connected_clients' = connected_clients \cup {c}
  /\ request' = [op |-> "connect_client", client |-> c]
  /\ published' = << >>
  /\ UNCHANGED << flagVars, Device >>
  /\ InterfaceRest

\* A broadcast of the WebSocket interface (send_command_response, send_error,
\* send_device_status, send_parsed_data all end in broadcast_to_all_clients)
Broadcast(failing) ==
  /\ ~CommandRunning
  /\ failing \subseteq connected_clients
  /\ LET b == broadcast_to_all_clients(connected_clients, failing) IN
     /\ connected_clients' = b.clients
     /\ request' = [op |-> "broadcast", clients |-> connected_clients,
                    failing |-> failing, received |-> b.received, count |-> b.count]
  /\ published' = << >>
  /\ UNCHANGED << flagVars, Device >>
  /\ InterfaceRest

\* POST /device (APIInterface.commissioning, lines 261-285).  With a pairing
\* code line 274 looks up self.device_manager.commissioning_device, which
\* DeviceManager does not define; without one line 275 reads the unbound local
\* response.  Either exception reaches line 283 and the route answers 500:
\* nothing is commissioned, published or broadcast, and
\* self._device_commissioned_callback, which no line of APIInterface calls, is
\* not called.  commissionable says whether chip-tool could have paired.
PostDevice(code, commissionable) ==
  /\ ~CommandRunning
  /\ request' = [op |-> "POST /device", code |-> code, commissionable |-> commissionable,
                 status |-> 500, signals |-> 0]
  /\ published' = << >>
  /\ UNCHANGED << flagVars, Device, connected_clients >>
  /\ InterfaceRest

\* DeviceManager.write_device_attribute: the chip-tool command of line 381
WriteCommand(device, cluster_name, attribute_name, value) ==
  [cluster |-> ClusterFormatted(cluster_name), verb |-> "write",
   attribute |-> AttributeFormatted(attribute_name), value |-> value,
   node |-> device.NodeID, endpoint |-> device.Endpoint]

\* write_attribute_direct without the lookup of lines 489-491
write_attribute_direct_unchecked(node_id, endpoint, cluster_name, attribute_name, value, raised) ==
  LET device == DeviceRow(<< node_id, endpoint >>) IN
  [status |-> IF raised THEN 400 ELSE 200,
   commands |-> << WriteCommand(device, cluster_name, attribute_name, value) >>]

\* POST /device/{node_id}/{endpoint}/{cluster_name}/{attribute_name}
\* (write_attribute_direct, lines 473-511): the status answered and the
\* chip-tool commands executed.  Without a Device row the HTTPException of line
\* 491 passes line 507; with one write_device_attribute runs the command and
\* returns True, or False when execute_command raised.
write_attribute_direct(node_id, endpoint, cluster_name, attribute_name, value, raised) ==
  LET found == get_device_by_node_id_endpoint(node_id, endpoint) IN
  IF found = {}
  THEN [status |-> 404, commands |-> << >>]
  ELSE LET device == CHOOSE r \in found : TRUE IN
       [status |-> IF raised THEN 400 ELSE 200,
        commands |-> << WriteCommand(device, cluster_name, attribute_name, value) >>]

\* The route from the request to its answer
WriteAttributeDirect(d, i, value, raised) ==
  /\ ~CommandRunning
  /\ LET r == write_attribute_direct(d[1], d[2], AllRows[i].Cluster, AllRows[i].Attribute,
                                     value, raised) IN
     request' = [op |-> "write_attribute_direct", dev |-> d, status |-> r.status,
                 commands |-> r.commands]
  /\ published' = << >>
  /\ UNCHANGED << flagVars, Device, connected_clients >>
  /\ InterfaceRest

\* POST /command (APIInterface.execute_command) up to the await of line 188:
\* polling is paused and the chip-tool command is running
PostCommandBegin(cluster, command, d) ==
  /\ ~CommandRunning
  /\ PausePolling
  /\ request' = [op |-> "POST /command", pc |-> "exec", cluster |-> cluster,
                 command |-> command, dev |-> d, polls |-> 0, status |-> 0]
  /\ published' = << >>
  /\ UNCHANGED << running, Device, connected_clients >>
  /\ InterfaceRest

\* POST /command from the return of execute_command on.  For On/Off on, off
\* and toggle the finally block evaluates self.database.get_value_by_attribute
\* (line 208): APIInterface has no attribute database and Database no such
\* method, so the AttributeError leaves the block before poll_single_attribute
\* (line 211) and replaces the answer of line 193; the handler of line 214
\* resumes polling, broadcasts the error to the WebSocket clients and answers
\* 500.  Any other command resumes polling at line 212 and is answered.
PostCommandReturn(failing) ==
  /\ request.op = "POST /command"
  /\ request.pc = "exec"
  /\ failing \subseteq connected_clients
  /\ ResumePolling
  /\ IF request.cluster = "On/Off" /\ request.command \in {"on", "off", "toggle"}
     THEN /\ connected_clients' = broadcast_to_all_clients(connected_clients, failing).clients
          /\ request' = [request EXCEPT !.pc = "done", !.status = 500]
     ELSE /\ failing = {}
          /\ connected_clients' = connected_clients
          /\ request' = [request EXCEPT !.pc = "done", !.status = 200]
  /\ UNCHANGED << running, Device, published >>
  /\ InterfaceRest

\* MQTTInterface._handle_command_message for a message on
\* homie/<topic_id>/<cluster_name>/<attribute_name>/set: without a Device row
\* it returns at line 119; with one it starts a thread that runs
\* self._command_callback(chip_command), and the callback is
\* chip_tool.execute_command (matterverse_app.py line 162)
HandleCommandMessage(topic_id, cluster_name, attribute_name, payload) ==
  /\ ~CommandRunning
  /\ LET found == get_device_by_topic_id(topic_id) IN
     IF found = {}
     THEN request' = [op |-> "set", pc |-> "done", topic_id |-> topic_id, commands |-> << >>]
     ELSE LET device == CHOOSE r \in found : TRUE
              chip_command ==
                IF cluster_name = "onoff"
                THEN [cluster |-> cluster_name,
                      verb |-> IF payload = "true" THEN "on" ELSE "off",
                      attribute |-> "", value |-> "",
                      node |-> device.NodeID, endpoint |-> device.Endpoint]
                ELSE [cluster |-> cluster_name, verb |-> "write",
                      attribute |-> AttributeFormatted(attribute_name), value |-> payload,
                      node |-> device.NodeID, endpoint |-> device.Endpoint]
          IN request' = [op |-> "set", pc |-> "exec", topic_id |-> topic_id,
                         commands |-> << chip_command >>]
  /\ published' = << >>
  /\ UNCHANGED << flagVars, Device, connected_clients >>
  /\ InterfaceRest

\* The thread of line 139 ends: execute_command has returned
CommandCallbackDone ==
  /\ request.op = "set"
  /\ request.pc = "exec"
  /\ request' = [request EXCEPT !.pc = "done"]
  /\ UNCHANGED << flagVars, Device, published, connected_clients >>
  /\ InterfaceRest

\* A message handed to client.publish
Message(topic, payload, retain) == [topic |-> topic, payload |-> payload, retain |-> retain]

\* publish_attribute_data if the AttributeError of line 288 left the method
publish_attribute_data_uncaught(json_data, rc_ok) ==
  [ok |-> FALSE, raised |-> TRUE, messages |-> << >>]

\* MQTTInterface.publish_attribute_data on the parsed JSON text: what it
\* returns and the messages it hands to the client.  The keys node, endpoint,
\* cluster, attribute and value are read from the top level of the object:
\* without a cluster there, None.lower() raises AttributeError (line 288),
\* which line 321 catches.  rc_ok says whether client.publish reports success.
publish_attribute_data(json_data, rc_ok) ==
  LET found == IF {"node", "endpoint"} \subseteq DOMAIN json_data
               THEN get_device_by_node_id_endpoint(json_data.node, json_data.endpoint)
               ELSE {} IN
  IF "cluster" \notin DOMAIN json_data \/ found = {}
  THEN [ok |-> FALSE, raised |-> FALSE, messages |-> << >>]
  ELSE LET device == CHOOSE r \in found : TRUE
           topic == "homie/" \o device.TopicID \o "/" \o ClusterFormatted(json_data.cluster)
                      \o "/" \o json_data.attribute
       IN [ok |-> rc_ok, raised |-> FALSE,
           messages |-> << Message(topic, Str(json_data.value), TRUE) >>]

\* MatterverseApplication._handle_polling_notification on the change event of
\* row i of the enumeration, as _send_value_change_notification builds it:
\* the MQTT publish, then send_parsed_data, which broadcasts the text; an
\* exception of the first would skip the second (line 201).  Nothing is raised
\* to the polling loop.
HandlePollingNotification(i, value, rc_ok, failing) ==
  /\ ~CommandRunning
  /\ failing \subseteq connected_clients
  /\ LET event == ChangeEvent(AllRows[i].NodeID, AllRows[i].Endpoint, AllRows[i].Cluster,
                              AllRows[i].Attribute, value)
         m == publish_attribute_data(event, rc_ok)
         b == IF m.raised
              THEN [clients |-> connected_clients, received |-> {}, count |-> 0]
              ELSE broadcast_to_all_clients(connected_clients, failing)
     IN /\ published' = m.messages
        /\ connected_clients' = b.clients
        /\ request' = [op |-> "notification", event |-> event, mqtt |-> m.ok,
                       clients |-> connected_clients, failing |-> failing,
                       received |-> b.received, raised |-> FALSE]
  /\ UNCHANGED << flagVars, Device >>
  /\ InterfaceRest

\* The device types of the data model (device-type XML)
device_types ==
  { [id |-> "0x0100", clusters |-> << "On/Off", "Level Control" >>] }

\* DataModelDictionary.get_clusters_by_device_type
get_clusters_by_device_type(device_type_id) ==
  LET hit == {dt \in device_types : dt.id = device_type_id} IN
  IF hit = {} THEN << >> ELSE (CHOOSE dt \in hit : TRUE).clusters

\* ",".join(names)
RECURSIVE Join(_)
Join(names) ==
  IF names = << >> THEN ""
  ELSE IF Len(names) = 1 THEN names[1]
  ELSE names[1] \o "," \o Join(Tail(names))

\* The messages of consecutive calls, in order
RECURSIVE Flatten(_)
Flatten(lists) ==
  IF lists = << >> THEN << >> ELSE Head(lists) \o Flatten(Tail(lists))

\* Database.get_all_devices: one dict for every row of the Device table, with
\* the keys node, endpoint, device_type, topic_id and clusters
get_all_devices ==
  LET order == IterationOrder(Device) IN
  [k \in 1..Len(order) |->
     [node |-> DeviceRow(order[k]).NodeID, endpoint |-> DeviceRow(order[k]).Endpoint,
      device_type |-> ToString(DeviceRow(order[k]).DeviceType),
      topic_id |-> DeviceRow(order[k]).TopicID, clusters |-> << >>]]

\* MQTTInterface._publish_attribute_info: $name, $datatype and $format by the
\* type, $settable
PublishAttributeInfo(base, attr) ==
  LET t == base \o "/" \o attr.name IN
  << Message(t \o "/$name", attr.name, TRUE) >>
  \o (CASE attr.type = "boolean" ->
             << Message(t \o "/$datatype", "boolean", TRUE),
                Message(t \o "/$format", "true,false", TRUE) >>
        [] attr.type = "int8u" -> << Message(t \o "/$datatype", "integer", TRUE) >>
        [] OTHER -> << >>)
  \o << Message(t \o "/$settable", IF attr.name = "OnOff" THEN "true" ELSE "false", TRUE) >>

\* MQTTInterface._publish_cluster_info: $name, $properties and the attributes
PublishClusterInfo(base, cluster) ==
  LET found == UNION {c.attributes : c \in get_cluster_by_name(cluster)}
      attributes == CHOOSE o \in [1..Cardinality(found) -> found] :
                      \A i, j \in 1..Cardinality(found) : i # j => o[i] # o[j]
      t == base \o "/" \o ClusterFormatted(cluster)
  IN << Message(t \o "/$name", cluster, TRUE),
        Message(t \o "/$properties", Join([k \in 1..Len(attributes) |-> attributes[k].name]),
                TRUE) >>
     \o Flatten([k \in 1..Len(attributes) |-> PublishAttributeInfo(t, attributes[k])])

\* MQTTInterface.publish_homie_device on a dict of get_all_devices: the topic
\* id is device.get("TopicID") and the device type device.get('DeviceType', 0),
\* keys the dict does not have, so the base is f"homie/{None}" and the type
\* 0x0000
publish_homie_device(device) ==
  LET topic_id == IF "TopicID" \in DOMAIN device THEN device.TopicID ELSE "None"
      device_type == Hex04(IF "DeviceType" \in DOMAIN device THEN device.DeviceType ELSE 0)
      cls == get_clusters_by_device_type(device_type)
      base == "homie/" \o topic_id
  IN << Message(base \o "/$homie", "3.0.1", TRUE),
        Message(base \o "/$name", "Test Device", TRUE),
        Message(base \o "/$state", "init", TRUE),
        Message(base \o "/$nodes", Join([k \in 1..Len(cls) |-> ClusterFormatted(cls[k])]),
                TRUE) >>
     \o Flatten([k \in 1..Len(cls) |-> PublishClusterInfo(base, cls[k])])
     \o << Message(base \o "/$state", "ready", TRUE) >>

\* MQTTInterface.publish_homie_devices, called by MatterverseApplication.startup
\* once the MQTT client is connected
publish_homie_devices ==
  /\ ~CommandRunning
  /\ published' = Flatten([k \in 1..Len(get_all_devices) |->
                             publish_homie_device(get_all_devices[k])])
  /\ request' = [op |-> "publish_homie_devices", devices |-> Device]
  /\ UNCHANGED << flagVars, Device, connected_clients >>
  /\ InterfaceRest

\* The topic ids a /set message can name: those of the devices a Registry can
\* hold, whether it holds them or not
TopicIds == {generate_topic_id(d[1], d[2]) : d \in DeviceKeys}

\* A Registry with some of the devices registered and no attribute row, the
\* engine not started, no client connected
InitInterfaces ==
  /\ InitEngine({CHOOSE c \in ConfigSet : TRUE}, {InitialTable(0)}, {TrueValue}, 1, 0)
  /\ CallIdle
  /\ Device \in SUBSET DeviceKeys
  /\ UniqueID = {d[1] : d \in Device}
  /\ registration = NoRegistration
  /\ InterfacesIdle

NextInterfaces ==
  \/ start_polling_all_devices
  \/ \E c \in Clients : connect_client(c)
  \/ \E failing \in SUBSET Clients : Broadcast(failing)
  \/ \E code, commissionable \in BOOLEAN : PostDevice(code, commissionable)
  \/ \E d \in DeviceKeys, i \in 1..Len(AllRows), raised \in BOOLEAN :
       WriteAttributeDirect(d, i, "true", raised)
  \/ \E cluster \in {"On/Off", "Level Control"}, command \in {"on", "toggle", "move-to-level"},
        d \in DeviceKeys : PostCommandBegin(cluster, command, d)
  \/ \E failing \in SUBSET Clients : PostCommandReturn(failing)
  \/ \E topic_id \in TopicIds, cluster_name \in {"onoff", "levelcontrol"},
        payload \in {"true", "7"} :
       HandleCommandMessage(topic_id, cluster_name,
                            IF cluster_name = "onoff" THEN "OnOff" ELSE "CurrentLevel", payload)
  \/ CommandCallbackDone
  \/ \E i \in 1..Len(AllRows), value \in RawValues, rc_ok \in BOOLEAN,
        failing \in SUBSET Clients : HandlePollingNotification(i, value, rc_ok, failing)
  \/ publish_homie_devices

SpecInterfaces == InitInterfaces /\ [][NextInterfaces]_vars

(***************************************************************************)
(* The Log Cleaner: ChipToolParser.delete_garbage_from_output on a log of   *)
(* up to MaxLines lines.  A line has three leading columns (time stamp,     *)
(* process, module) and up to MaxCols further columns; wide are the         *)
(* positions after which more than one blank (or a tab) separates two       *)
(* columns.  An "im" line is the IM:ReportData header with                  *)
(* 'from 1:0000000000000001', a "dmg" line has [DMG] as its third column,   *)
(* an "other" line another module.                                          *)
(***************************************************************************)
MaxLines == 2
MaxCols == 2

LogTokens == {"Endpoint", "=", "{", "}", "(", ")"}

LogLines ==
  {[kind |-> "im", cols |-> << "IM:ReportData" >>, wide |-> {}]}
  \cup {[kind |-> kind, cols |-> cols, wide |-> wide] :
          kind \in {"dmg"},
          cols \in UNION {[1..n -> LogTokens] : n \in 1..MaxCols},
          wide \in SUBSET (1..(MaxCols - 1))}
  \cup {[kind |-> "other", cols |-> << "Endpoint", "=" >>, wide |-> {}]}

\* "Endpoint =" in line: the two columns with exactly one blank between them
HasEndpoint(line) ==
  \E k \in 1..(Len(line.cols) - 1) :
    line.cols[k] = "Endpoint" /\ line.cols[k + 1] = "=" /\ k \notin line.wide

\* The loop of lines 82-122: node_id and formatted_lines, as columns
RECURSIVE FormatLines(_, _, _)
FormatLines(lines, node_id, formatted_lines) ==
  IF lines = << >> THEN formatted_lines
  ELSE LET line == Head(lines)
           id == IF line.kind = "im" THEN "0x1" ELSE node_id
           emitted ==
             IF line.kind = "dmg"
             THEN (IF HasEndpoint(line)
                   THEN << "NodeID", "=", IF id # "" THEN id ELSE "UNKNOWN" >>
                   ELSE << >>) \o line.cols
             ELSE << >>
       IN FormatLines(Tail(lines), id, formatted_lines \o emitted)

\* re.sub(r'\(.*?\)', '', formatted_string): from a "(" to the next ")"
RECURSIVE RemoveParentheses(_)
RemoveParentheses(columns) ==
  IF columns = << >> THEN << >>
  ELSE IF Head(columns) = "(" /\ \E k \in 2..Len(columns) : columns[k] = ")"
  THEN LET k == CHOOSE i \in 2..Len(columns) :
                  columns[i] = ")" /\ \A j \in 2..(i - 1) : columns[j] # ")"
       IN RemoveParentheses(SubSeq(columns, k + 1, Len(columns)))
  ELSE << Head(columns) >> \o RemoveParentheses(Tail(columns))

\* ChipToolParser.delete_garbage_from_output: the columns of the string returned
delete_garbage_from_output(log) == RemoveParentheses(FormatLines(log, "", << >>))

\* The Log Cleaner returns for the log it was given
CleanerReturns ==
  /\ request.op = "delete_garbage_from_output"
  /\ ~request.done
  /\ request' = [request EXCEPT !.done = TRUE,
                                !.out = delete_garbage_from_output(request.log)]
  /\ UNCHANGED << constVars, callVars, registryVars, flagVars, polling_tasks, device_locks,
                  enableVars, mgmtVars, Attribute, handlers, calls, procVars, published,
                  connected_clients >>

InitCleaner ==
  /\ InitEngine({CHOOSE c \in ConfigSet : TRUE}, {InitialTable(0)}, {TrueValue}, 1, 0)
  /\ CallIdle
  /\ RegistryEmpty
  /\ request \in {[op |-> "delete_garbage_from_output", log |-> log, done |-> FALSE,
                   out |-> << >>] :
                    log \in UNION {[1..n -> LogLines] : n \in 0..MaxLines}}
  /\ published = << >>
  /\ connected_clients = {}

SpecCleaner == InitCleaner /\ [][CleanerReturns]_vars

(***************************************************************************)
(* Overlapping POST /command requests.  FastAPI runs every request as a    *)
(* task of its own, so a second request can call pause_polling_for_command *)
(* while the first awaits chip_tool.execute_command (api_interface.py line *)
(* 188).  Every path of the handler calls resume_polling_after_command:    *)
(* line 212 of the finally block, or line 217 when the block raised.       *)
(***************************************************************************)
MaxCommands == 2
CommandIds == 1..MaxCommands

\* line 178: request k pauses polling and goes on to execute its command
CommandPause(k) ==
  /\ request.op = "execute_command"
  /\ k \notin request.in_flight
  /\ PausePolling
  /\ request' = [request EXCEPT !.in_flight = @ \cup {k}]
  /\ UNCHANGED << running, Device, published, connected_clients >>
  /\ InterfaceRest

\* lines 205-217: the command of request k has returned or raised, the
\* request resumes polling
CommandResume(k) ==
  /\ request.op = "execute_command"
  /\ k \in request.in_flight
  /\ ResumePolling
  /\ request' = [request EXCEPT !.in_flight = @ \ {k}]
  /\ UNCHANGED << running, Device, published, connected_clients >>
  /\ InterfaceRest

InitPause ==
  /\ InitEngine(ConfigSet, {InitialTable(n) : n \in 1..Len(AllRows)}, {TrueValue}, 1, 0)
  /\ CallIdle
  /\ RegistryEmpty
  /\ request = [op |-> "execute_command", in_flight |-> {}]
  /\ published = << >>
  /\ connected_clients = {}

NextPause ==
  \/ start_polling_all_devices
  \/ StopBegin
  \/ StopCancel
  \/ StopClear
  \/ \E k \in CommandIds : CommandPause(k)
  \/ \E k \in CommandIds : CommandResume(k)

SpecPause == InitPause /\ [][NextPause]_vars

(***************************************************************************)
(* The error handler of the polling loop and the rescans.  The handler of  *)
(* lines 336-347 is the only caller of PollingState.disable_device.  An    *)
(* exception of poll_single_attribute does not reach it (line 386); the    *)
(* step below is the handler for an exception that does, raised inside the *)
(* try block of line 321 while the loop is in its sweep.  Nothing in the   *)
(* application calls restart_device_polling, and nothing does here.        *)
(***************************************************************************)
DeviceErrorStop(t) ==
  LET tk == polling_tasks[t] IN
  /\ tk.pc \in {"issue", "gap"}
  /\ error_counts' = [error_counts EXCEPT ![tk.dev] = @ + 1]
  /\ IF config.device_error_stop
     THEN /\ polling_enabled' = [polling_enabled EXCEPT ![tk.dev] = FALSE]
          /\ polling_tasks' = [polling_tasks EXCEPT ![t] = Finished(tk)]
     ELSE /\ UNCHANGED polling_enabled
          /\ polling_tasks' = [polling_tasks EXCEPT ![t] = Sleeping(tk)]
  /\ UNCHANGED << constVars, callVars, registryVars, ifaceVars, flagVars, device_locks, mgmtVars, Attribute,
                  handlers, calls, procVars >>

InitDisable ==
  InitWith(ConfigSet, {InitialTable(n) : n \in 1..Len(AllRows)}, {TrueValue}, 1, 0)

NextDisable ==
  \/ start_polling_all_devices
  \/ \E t \in TaskIds : LoopTop(t)
  \/ \E t \in TaskIds : DeviceErrorStop(t)
  \/ \E d \in DeviceKeys : add_new_device_polling(d)
  \/ rescan_and_add_new_devices
  \/ AutoDiscovery
  \/ StopBegin
  \/ StopCancel
  \/ StopClear

SpecDisable == InitDisable /\ [][NextDisable]_vars

(***************************************************************************)
(* Overlapping register_new_device calls.  Each call is a coroutine: it    *)
(* takes its node ID at line 56 and then awaits chip-tool reads before it  *)
(* inserts anything, so another call can take its node ID in between.      *)
(* Here registration holds one record per call.                            *)
(***************************************************************************)
MaxRuns == 2
RunIds == 1..MaxRuns
NotStarted == [pc |-> "idle", node_id |-> 0]

\* line 56: node_id = self.database.get_new_node_id(), then the read of the
\* unique id is awaited
OverlapBegin(r) ==
  /\ registration[r].pc = "idle"
  /\ get_new_node_id <= MaxCycles
  /\ registration' = [registration EXCEPT ![r] = [pc |-> "unique", node_id |-> get_new_node_id]]
  /\ UNCHANGED << Device, UniqueID >>
  /\ EngineIdle
  /\ UNCHANGED << callVars, ifaceVars >>

\* lines 59-86: the unique-id read fails and the call returns False, or
\* insert_unique_id runs (a NodeID that has a row raises IntegrityError and the
\* call returns False) and the endpoint list is awaited
OverlapUniqueId(r, read) ==
  /\ registration[r].pc = "unique"
  /\ IF read /\ registration[r].node_id \notin UniqueID
     THEN /\ UniqueID' = UniqueID \cup {registration[r].node_id}
          /\ registration' = [registration EXCEPT ![r].pc = "endpoints"]
     ELSE /\ UNCHANGED UniqueID
          /\ registration' = [registration EXCEPT ![r] = NotStarted]
  /\ UNCHANGED Device
  /\ EngineIdle
  /\ UNCHANGED << callVars, ifaceVars >>

\* lines 83-113: the endpoints of the node are read and insert_device runs for
\* each of them; a (NodeID, Endpoint) that has a row raises IntegrityError and
\* the loop continues
OverlapInsert(r, endpoints) ==
  /\ registration[r].pc = "endpoints"
  /\ Device' = Device \cup {<< registration[r].node_id, e >> : e \in endpoints}
  /\ registration' = [registration EXCEPT ![r] = NotStarted]
  /\ UNCHANGED UniqueID
  /\ EngineIdle
  /\ UNCHANGED << callVars, ifaceVars >>

InitOverlap ==
  /\ InitEngine({CHOOSE c \in ConfigSet : TRUE}, {InitialTable(0)}, {TrueValue}, 1, 0)
  /\ CallIdle
  /\ Device = {}
  /\ UniqueID = {}
  /\ registration = [r \in RunIds |-> NotStarted]
  /\ InterfacesIdle

NextOverlap ==
  \/ \E r \in RunIds : OverlapBegin(r)
  \/ \E r \in RunIds, read \in BOOLEAN : OverlapUniqueId(r, read)
  \/ \E r \in RunIds, endpoints \in SUBSET Endpoints : OverlapInsert(r, endpoints)

SpecOverlap == InitOverlap /\ [][NextOverlap]_vars

TypeOK ==
  /\ running \in BOOLEAN
  /\ paused_for_command \in BOOLEAN
  /\ command_in_progress \in BOOLEAN
  /\ stop_pc \in {"idle", "cancel", "gather"}
  /\ discovery_task \in {"none", "active"}
  /\ \A t \in TaskIds : polling_tasks[t].pc \in
        {"none", "loop", "sleep", "semWait", "lockWait", "issue", "read", "gap", "done"}
  /\ \A c \in CallerIds : calls[c].st \in {"none", "wait", "run", "rsleep", "rrun"}
  /\ orphans \in 0..MaxOrphans
  /\ busy_left \in 0..MaxBusy

(***************************************************************************)
(* Properties.                                                             *)
(***************************************************************************)

\* C1: from pause_polling_for_command of a POST /command until its
\* resume_polling_after_command, no polling loop has a chip-tool read issued or
\* in progress.
C1_PauseInvariant ==
  CommandInFlight => \A t \in TaskIds : polling_tasks[t].pc # "read"

\* C2: while the engine runs, there are never two live polling loops for the same
\* (node,endpoint).
C2_OneLoopPerDevice ==
  running => \A d \in DeviceKeys : Cardinality(LoopsOf(d)) <= 1

\* C3: the chip-tool process of an external command (POST /command, attribute
\* write, MQTT set) never runs at the same time as the chip-tool process of a
\* polling read of the same (node,endpoint).
C3_CommandsSerializedWithPolling ==
  \A t \in TaskIds, h \in HandlerIds :
    ~(/\ calls[t].st = "run"
      /\ calls[h].st = "run"
      /\ polling_tasks[t].dev = handlers[h].dev)

\* C4: within one (node,endpoint) at most one polling loop is inside
\* poll_single_attribute, however many loops the device has: a read of the device
\* starts only after the previous one has finished.
C4_ReadsSequential ==
  \A d \in DeviceKeys :
    Cardinality({t \in TaskIds : polling_tasks[t].dev = d
                                 /\ polling_tasks[t].pc \in {"issue", "read"}}) <= 1

\* two loops of one device, one reading, the other waiting for the device lock
C4_Witness ==
  \E t, u \in TaskIds :
    /\ t # u
    /\ polling_tasks[t].dev = polling_tasks[u].dev
    /\ polling_tasks[t].pc = "read"
    /\ polling_tasks[u].pc = "lockWait"

\* C5: once no command is in flight, the running engine is no longer paused.
C5_ResumedWhenIdle ==
  (running /\ ~CommandInFlight) => ~paused_for_command

\* a read of row i of the enumeration is under way
RowRead(i) ==
  \E t \in TaskIds :
    /\ polling_tasks[t].pc = "read"
    /\ polling_tasks[t].dev = DeviceOf(AllRows[i])
    /\ polling_tasks[t].snap[polling_tasks[t].idx].Cluster = AllRows[i].Cluster
    /\ polling_tasks[t].snap[polling_tasks[t].idx].Attribute = AllRows[i].Attribute

\* a read of some row of device d is under way
DeviceRead(d) ==
  \E t \in TaskIds : polling_tasks[t].pc = "read" /\ polling_tasks[t].dev = d

\* C6: no attribute is starved: a row of the Attribute table whose device is read
\* again and again is itself read again and again.
C6_NoAttributeStarved ==
  \A i \in 1..Len(AllRows) :
    (<>[](Len(Attribute) >= i) /\ []<>DeviceRead(DeviceOf(AllRows[i]))) => []<>RowRead(i)

\* the step in which poll_single_attribute of task t returns with a value
C7_Step(t) ==
  LET tk == polling_tasks[t]
      attr == tk.snap[tk.idx]
      i == CHOOSE k \in DOMAIN Attribute :
             /\ DeviceOf(Attribute[k]) = tk.dev
             /\ Attribute[k].Cluster = attr.Cluster
             /\ Attribute[k].Attribute = attr.Attribute
      new_value == polling_tasks'[t].new_value
      events == polling_tasks'[t].events
  IN (tk.pc = "read" /\ polling_tasks'[t].pc = "gap" /\ new_value # NoValue) =>
       IF Attribute[i].Value = NULL \/ Attribute[i].Value # Str(new_value)
       THEN /\ Attribute' = [Attribute EXCEPT ![i].Value = Str(new_value)]
            /\ events = << ChangeEvent(tk.dev[1], tk.dev[2], attr.Cluster,
                                        attr.Attribute, new_value) >>
       ELSE /\ Attribute' = Attribute
            /\ events = <<>>

\* C7: a read whose value, as a string, differs from the stored value (or whose
\* stored value is NULL) updates that row of the Registry and sends exactly one
\* change event carrying the value; a read of the stored value changes nothing and
\* sends no event.
C7_ChangeDetection == [][\A t \in TaskIds : C7_Step(t)]_vars

\* C8: with device_error_stop, an error raised by poll_single_attribute (a read
\* timeout) disables the device and ends its polling loop.
C8_ErrorStopsDevice ==
  [][\A t \in TaskIds :
       (PollTimeout(t) /\ config.device_error_stop) =>
         /\ ~polling_enabled'[polling_tasks[t].dev]
         /\ polling_tasks'[t].pc \in {"none", "done"}]_vars

\* C9: while the engine runs with auto_discovery_interval > 0, a device that has
\* rows in the Attribute table and no polling loop gets one (task slots for every
\* device being free).
C9_EveryDeviceGetsLoop ==
  \A d \in DeviceKeys :
    (/\ running
     /\ config.auto_discovery_interval > 0
     /\ d \in GetUniqueDevices
     /\ LoopsOf(d) = {}
     /\ Cardinality(FreeSlots) >= Cardinality(DeviceKeys)) ~> (LoopsOf(d) # {})

\* C10: the chip-tool processes running at the same time never exceed the
\* executor's max_concurrent_processes.
C10_ProcessesBounded == RunningProcesses <= max_concurrent

\* C11: execute retries exactly when the output of the first process contains
\* 'Resource is busy', whether or not a part of it parses; it makes at most 3
\* retries and starts at most 4 processes per call; and it starts no process
\* after one that gave a result that is not busy.
C11_RetriesExactlyWhenBusy ==
  /\ run.retries <= max_retries
  /\ Len(run.procs) <= max_retries + 1
  /\ (run.pc \in {"rsleep", "rcomm", "done"} /\ run.procs # << >>
        /\ run.procs[1].out # NoOutput)
       => ((run.retries > 0 \/ run.pc = "rsleep") <=> run.procs[1].out.busy)
  /\ \A k \in 1..(Len(run.procs) - 1) :
       run.procs[k].out # NoOutput => run.procs[k].out.busy

\* C12: when the first process and the three retry processes all report
\* 'Resource is busy', the call returns the response of the last retry.
C12_LastRetryReturned ==
  (/\ run.pc = "done"
   /\ Len(run.procs) = max_retries + 1
   /\ \A k \in 1..Len(run.procs) :
        ResourceBusy(ParseProcessOutputOf(k, run.procs[k].out)))
    => run.result = ParseProcessOutputOf(Len(run.procs), run.procs[Len(run.procs)].out)

\* C13: a pairing command whose processes print 'Resource is busy' twice and
\* then a valid InvokeResponseMessage of the new node with CommandFields
\* 0x0 = "0" makes commissioning return true, after exactly 2 retries.
C13_CommissionedAfterBusy ==
  (/\ run.pc = "done"
   /\ run.command = "pairing"
   /\ Len(run.procs) = 3
   /\ run.retries = Len(run.procs) - 1
   /\ run.procs[1].out = [stderr |-> "clean", busy |-> TRUE, dmg |-> "empty"]
   /\ run.procs[2].out = [stderr |-> "clean", busy |-> TRUE, dmg |-> "empty"]
   /\ run.procs[3].out = [stderr |-> "clean", busy |-> FALSE, dmg |-> "invoke"])
    => (run.commissioned /\ run.retries = 2)

\* C14: when the call returns, every process of it that outlived its deadline
\* was sent SIGTERM first, is no longer running, and the call made no retry
\* after it and returns status 'timeout'.
C14_LateProcessStopped ==
  run.pc = "done" =>
    \A k \in 1..Len(run.procs) :
      run.procs[k].late =>
        /\ run.procs[k].signals # << >>
        /\ Head(run.procs[k].signals) = "SIGTERM"
        /\ ~run.procs[k].alive
        /\ k = Len(run.procs)
        /\ run.result.status = "timeout"

\* C15: whatever the outcome of the call, chip_tool_config.ini does not exist
\* when the call has returned its response.
C15_ConfigIniDeleted == run.pc = "done" => ~config_ini

\* C16: when the only process of a call exits with a clean stderr and no block
\* of its stdout parses, blocks that fail to parse included, the call returns
\* status 'success' and data.raw_output is the stdout text of that process.
C16_RawOutputIsStdout ==
  (/\ run.pc = "done"
   /\ run.command = "read"
   /\ Len(run.procs) = 1
   /\ run.procs[1].out # NoOutput
   /\ run.procs[1].out.stderr = "clean"
   /\ parse_chip_data(run.procs[1].out) = << >>)
    => /\ run.result.status = "success"
       /\ run.result.shape = "raw"
       /\ run.result.raw_output = StdoutOf(1, run.procs[1].out)

\* C17: each Attribute row's (node, endpoint) has a Device row; deleting a
\* device through the API leaves no Attribute row of it behind.
C17_AttributeHasDevice ==
  \A i \in 1..Len(Attribute) : DeviceOf(Attribute[i]) \in Device

\* C18: between registrations, when every device answered the reads of its
\* registration, get_new_node_id is greater than every node ID stored in the
\* Device, UniqueID and Attribute tables, and it is 1 only when the Registry is
\* empty.
C18_NewNodeIdFresh ==
  (registration.pc = "idle" /\ ~registration.faults) =>
    /\ \A n \in DeviceNodeIDs \cup UniqueID
                  \cup {Attribute[i].NodeID : i \in 1..Len(Attribute)} :
         get_new_node_id > n
    /\ get_new_node_id = 1 => (Device = {} /\ UniqueID = {} /\ Attribute = << >>)

\* C19: between registrations, when every device answered the reads of its
\* registration, the node IDs of the Device table are 1..N for the N cycles
\* so far, minus the nodes whose devices were all deleted through the API, and
\* the next node ID is the largest stored one plus 1.
C19_NodeIdsMonotone ==
  (registration.pc = "idle" /\ ~registration.faults) =>
    /\ DeviceNodeIDs =
         (1..registration.cycles)
           \ {d[1] : d \in {e \in registration.deleted : e[1] \notin DeviceNodeIDs}}
    /\ \A n \in DeviceNodeIDs : get_new_node_id > n
    /\ get_new_node_id - 1 \in DeviceNodeIDs \cup {0}

\* C20: when register_new_device has returned False, no row that this call
\* inserted is in the UniqueID or Device table.
C20_RegistrationRolledBack ==
  (registration.pc = "idle" /\ registration.failed) =>
    \A row \in registration.inserted :
      /\ row[1] = "UniqueID" => row[2] \notin UniqueID
      /\ row[1] = "Device" => << row[2], row[3] >> \notin Device

\* C21: no create_attribute_entry or update_attribute call changes the Type of
\* an Attribute row or removes the row, and create_attribute_entry on an
\* existing row returns True and leaves the whole table as it was.
C21_TypeNeverChanges ==
  [][/\ Len(Attribute') >= Len(Attribute)
     /\ \A j \in 1..Len(Attribute) :
          /\ Attribute'[j].Type = Attribute[j].Type
          /\ DeviceOf(Attribute'[j]) = DeviceOf(Attribute[j])
          /\ Attribute'[j].Cluster = Attribute[j].Cluster
          /\ Attribute'[j].Attribute = Attribute[j].Attribute
     /\ (/\ request'.op = "create_attribute_entry"
         /\ ExistingRow(Attribute, request'.key) # {})
          => (request'.result = "true" /\ Attribute' = Attribute)]_vars

\* C21 witness: a row holds a value that update_attribute wrote, and
\* create_attribute_entry has then been called on that existing row.
C21_Witness ==
  /\ request.op = "create_attribute_entry"
  /\ request.result = "true"
  /\ \E j \in ExistingRow(Attribute, request.key) :
       Attribute[j].Value = "1" /\ Attribute[j].Type = "bool"

\* C22: commissioning returns true exactly when some item of the response list
\* is of the new node with command_fields 0x0 = "0", wherever the item stands
\* and whatever the other items lack.
C22_CommissioningExact ==
  (request.op = "commissioning" /\ request.result # "none") =>
    (request.result = "true" <=>
       \E k \in 1..Len(request.items) : request.items[k] = "invoke")

\* C23: a POST /device that commissions a device emits the device-commissioned
\* signal once, so that one polling loop is added for each new (node, endpoint):
\* the request with a pairing code of a device that chip-tool can pair is
\* answered with success and one signal.
C23_CommissioningSignalled ==
  (request.op = "POST /device" /\ request.code /\ request.commissionable) =>
    (request.status = 200 /\ request.signals = 1)

\* C24: a POST /command with cluster On/Off and command on, off or toggle
\* performs one single-attribute poll of (On/Off, OnOff) after the command and
\* before polling is resumed.
C24_FollowUpPoll ==
  (/\ request.op = "POST /command"
   /\ request.pc = "done"
   /\ request.cluster = "On/Off"
   /\ request.command \in {"on", "off", "toggle"}) =>
    (request.polls = 1 /\ request.status = 200)

C27_BroadcastDropsFailing ==
  request.op = "broadcast" =>
    /\ connected_clients = request.clients \ request.failing
    /\ request.received = request.clients \ request.failing
    /\ request.count = Cardinality(request.received)

\* C27 happens: a broadcast where one send failed and another succeeded
C27_Witness ==
  /\ request.op = "broadcast"
  /\ request.failing # {}
  /\ request.received # {}

\* C28: while the chip-tool command of an MQTT /set message for a known device
\* runs, polling is paused.
C28_SetPausesPolling ==
  (request.op = "set" /\ request.pc = "exec" /\ running) =>
    (paused_for_command /\ command_in_progress)

\* C29: on MQTT boot-up every Device of the Registry has its Homie topics
\* published under homie/<topic_id of that device>, $state=init before
\* $state=ready.
C29_HomieUnderTopicId ==
  request.op = "publish_homie_devices" =>
    \A d \in Device :
      \E j, k \in 1..Len(published) :
        /\ j < k
        /\ published[j] =
             Message("homie/" \o generate_topic_id(d[1], d[2]) \o "/$state", "init", TRUE)
        /\ published[k] =
             Message("homie/" \o generate_topic_id(d[1], d[2]) \o "/$state", "ready", TRUE)

\* C30: a direct attribute write for a (node, endpoint) without a Device row is
\* answered 404, executes no chip-tool command and changes no row of the
\* Registry.
C30_UnknownDeviceNotWritten ==
  [][\A d \in DeviceKeys \ Device, i \in 1..Len(AllRows), raised \in BOOLEAN :
       WriteAttributeDirect(d, i, "true", raised) =>
         /\ request'.status = 404
         /\ request'.commands = << >>
         /\ UNCHANGED << Device, UniqueID, Attribute >>]_vars

\* C30 happens: a direct write for a device without a Device row was answered
C30_Witness ==
  /\ request.op = "write_attribute_direct"
  /\ request.dev \notin Device
  /\ request.status = 404

\* C31: when stop_polling returns, every per-device polling task and the
\* auto-discovery task have ended and the task list is empty, and the
\* cancellation has neither disabled a device nor counted an error.
C31_StopEndsEveryTask ==
  [][(stop_pc # "idle" /\ stop_pc' = "idle") =>
       /\ discovery_task' = "none"
       /\ \A t \in TaskIds : polling_tasks'[t].pc \in {"none", "done"}
       /\ \A t \in TaskIds : ~polling_tasks'[t].listed
       /\ UNCHANGED enableVars]_vars

\* The depth of the blocks open after the first k columns of the output
C32_Depth(out, k) ==
  Cardinality({i \in 1..k : out[i] = "{"}) - Cardinality({i \in 1..k : out[i] = "}"})

\* C32: in the Log Cleaner's output every 'Endpoint =' is preceded by a
\* 'NodeID =' within the same top-level block (no top-level block ends or
\* begins between the two), whatever the lines of the log.
C32_EndpointHasNodeID ==
  (request.op = "delete_garbage_from_output" /\ request.done) =>
    LET out == request.out IN
    \A k \in 1..(Len(out) - 1) :
      (out[k] = "Endpoint" /\ out[k + 1] = "=") =>
        \E j \in 1..(k - 1) :
          /\ out[j] = "NodeID"
          /\ out[j + 1] = "="
          /\ \A i \in (j + 1)..k :
               /\ ~(out[i] = "}" /\ C32_Depth(out, i) = 0)
               /\ ~(out[i] = "{" /\ C32_Depth(out, i) = 1)

\* devices with a polling loop inside "async with self._semaphore"
C33_DevicesInSweep == {polling_tasks[t].dev : t \in DeviceSemHolders}

\* C33: at no time are more than max_concurrent_devices polling loops, and so
\* more than max_concurrent_devices devices, inside a polling sweep.
C33_SweepsBounded ==
  /\ Cardinality(DeviceSemHolders) <= config.max_concurrent_devices
  /\ Cardinality(C33_DevicesInSweep) <= config.max_concurrent_devices

\* the semaphore is exhausted while a loop of another device waits for it
C33_Witness ==
  /\ Cardinality(C33_DevicesInSweep) = config.max_concurrent_devices
  /\ \E u \in TaskIds :
       /\ polling_tasks[u].pc = "semWait"
       /\ polling_tasks[u].dev \notin C33_DevicesInSweep

\* the read of polling loop t ends without a value: the response is not
\* 'success' or no value can be extracted from it
C34_FailedPoll(t) ==
  /\ polling_tasks[t].pc = "read"
  /\ polling_tasks'[t].pc = "gap"
  /\ polling_tasks'[t].new_value = NoValue

\* C34: a poll whose response is not 'success', or whose value cannot be
\* extracted, increments the error count of its device and, with
\* device_error_stop, disables the device.
C34_FailedPollCounted ==
  [][\A t \in TaskIds :
       C34_FailedPoll(t) =>
         /\ error_counts'[polling_tasks[t].dev] = error_counts[polling_tasks[t].dev] + 1
         /\ config.device_error_stop => ~polling_enabled'[polling_tasks[t].dev]]_vars

\* C35: the engine is paused exactly while an external command is between its
\* pause and its resume: a resume that leaves another command in flight leaves
\* the engine paused, and with no command in flight the engine is not paused,
\* whatever stop_polling and start_polling_all_devices did in between.
C35_PausedWhileCommands ==
  [][/\ (/\ paused_for_command
         /\ request'.in_flight # {}
         /\ request'.in_flight \subseteq request.in_flight) => paused_for_command'
     /\ request'.in_flight = {} => ~paused_for_command']_vars

\* the execute_command call of caller c ends in this step, by returning or by
\* the cancellation of an expired wait_for, while its caller goes on
C36_CallEnds(c) ==
  /\ calls[c].st # "none"
  /\ calls'[c].st = "none"
  /\ c \in TaskIds => polling_tasks'[c].pc \notin {"none", "done"}

\* C36: when an execute_command call ends, by returning or because the
\* caller's wait_for deadline expired, it leaves no chip-tool process of its
\* own running.
C36_NoProcessOutlivesCall ==
  [][\A c \in CallerIds : C36_CallEnds(c) => orphans' <= orphans]_vars

C38_NodeIdsDistinct ==
  \A r, s \in RunIds :
    (r # s /\ registration[r].pc # "idle" /\ registration[s].pc # "idle") =>
      registration[r].node_id # registration[s].node_id

====
